---- MODULE Spec2Model ----
(***************************************************************************)
(* A model of the ODIN normalization pipeline (odinnormalize.py with the   *)
(* helpers of odinxigt.py).                                                *)
(*                                                                         *)
(* A text is a sequence of characters, each character a one-element        *)
(* string; characters outside ASCII are written by their code point        *)
(* ("u0022" is the quotation mark, "u0060" the grave accent).  A tag is    *)
(* a text too ("L-G+AC" is <<"L","-","G","+","A","C">>), because the code  *)
(* slices, splits, joins and substring-searches tag strings.  Items are    *)
(* objects on a heap; lists hold references, as Python lists do.           *)
(***************************************************************************)
EXTENDS Integers, Sequences, FiniteSets, TLC

----------------------------------------------------------------------------
(* Characters and character classes of Python's re module (re.U).          *)

Digits == {"0", "1", "2", "3", "4", "5", "6", "7", "8", "9"}

LowerSeq == <<"a", "b", "c", "d", "e", "f", "g", "h", "i", "j", "k", "l", "m",
              "n", "o", "p", "q", "r", "s", "t", "u", "v", "w", "x", "y", "z">>

UpperSeq == <<"A", "B", "C", "D", "E", "F", "G", "H", "I", "J", "K", "L", "M",
              "N", "O", "P", "Q", "R", "S", "T", "U", "V", "W", "X", "Y", "Z">>

Range(f) == {f[i] : i \in DOMAIN f}

LowerAZ == Range(LowerSeq)

UpperAZ == Range(UpperSeq)

\* letters outside ASCII that occur in the texts of the model
UniLetters == {"u00f3"}

\* \w
WordChars == Digits \cup LowerAZ \cup UpperAZ \cup UniLetters \cup {"_"}

\* \s, and the characters str.strip() removes
Space == {" ", "\t"}

\* the set a case-insensitive (re.I) match of a character of S accepts
CI(S) == S \cup {LowerSeq[i] : i \in {j \in 1..26 : UpperSeq[j] \in S}}
           \cup {UpperSeq[i] : i \in {j \in 1..26 : LowerSeq[j] \in S}}

----------------------------------------------------------------------------
(* Python string operations.                                               *)

Min(a, b) == IF a < b THEN a ELSE b

Max(a, b) == IF a > b THEN a ELSE b

\* s[a:b] for 0 <= a, 0 <= b
Slice(s, a, b) == SubSeq(s, a + 1, Min(b, Len(s)))

\* the number of leading characters of s that are in S
RECURSIVE LeadIn(_, _)
LeadIn(s, S) == IF s # <<>> /\ Head(s) \in S THEN 1 + LeadIn(Tail(s), S) ELSE 0

\* the number of trailing characters of s that are in S
RECURSIVE TrailIn(_, _)
TrailIn(s, S) ==
    IF s # <<>> /\ s[Len(s)] \in S
    THEN 1 + TrailIn(SubSeq(s, 1, Len(s) - 1), S) ELSE 0

LStrip(s) == SubSeq(s, LeadIn(s, Space) + 1, Len(s))

RStrip(s) == SubSeq(s, 1, Len(s) - TrailIn(s, Space))

Strip(s) == LStrip(RStrip(s))

Spaces(n) == [i \in 1..n |-> " "]

\* s.ljust(n)
LJust(s, n) == IF Len(s) >= n THEN s ELSE s \o Spaces(n - Len(s))

\* sep.join(parts)
RECURSIVE Join(_, _)
Join(sep, parts) ==
    IF parts = <<>> THEN <<>>
    ELSE IF Len(parts) = 1 THEN parts[1]
    ELSE parts[1] \o sep \o Join(sep, Tail(parts))

\* s.split(c) for a single character c
RECURSIVE Split(_, _)
Split(s, c) ==
    LET n == LeadIn(s, {x \in Range(s) : x # c})
    IN  IF n = Len(s) THEN <<s>>
        ELSE <<SubSeq(s, 1, n)>> \o Split(SubSeq(s, n + 2, Len(s)), c)

\* x in s, for texts x and s
Contains(s, x) ==
    \E i \in 0..(Len(s) - Len(x)) : SubSeq(s, i + 1, i + Len(x)) = x

\* the first index i >= from (0-based) with s[i:i+len(x)] = x, or -1
RECURSIVE Find(_, _, _)
Find(s, x, from) ==
    IF from + Len(x) > Len(s) THEN -1
    ELSE IF SubSeq(s, from + 1, from + Len(x)) = x THEN from
    ELSE Find(s, x, from + 1)

\* s.replace(x, y), for a non-empty x
RECURSIVE Replace(_, _, _)
Replace(s, x, y) ==
    LET i == Find(s, x, 0)
    IN  IF i < 0 THEN s
        ELSE SubSeq(s, 1, i) \o y \o Replace(SubSeq(s, i + Len(x) + 1, Len(s)), x, y)

\* the characters of tags and ids in code point order, for sorted()
CodeOrder == <<"+", ",", "-">> \o <<"0", "1", "2", "3", "4", "5", "6", "7", "8", "9">>
             \o UpperSeq \o <<"_">> \o LowerSeq

Ord(c) == CHOOSE i \in DOMAIN CodeOrder : CodeOrder[i] = c

\* a < b for Python strings
RECURSIVE TextLT(_, _)
TextLT(a, b) ==
    IF b = <<>> THEN FALSE
    ELSE IF a = <<>> THEN TRUE
    ELSE IF Head(a) = Head(b) THEN TextLT(Tail(a), Tail(b))
    ELSE Ord(Head(a)) < Ord(Head(b))

\* sorted(S) for a set S of strings
RECURSIVE Sorted(_)
Sorted(S) ==
    IF S = {} THEN <<>>
    ELSE LET m == CHOOSE x \in S : \A y \in S : y = x \/ TextLT(x, y)
         IN  <<m>> \o Sorted(S \ {m})

\* str(n) for 0 <= n
RECURSIVE Str(_)
Str(n) ==
    LET d == <<"0", "1", "2", "3", "4", "5", "6", "7", "8", "9">>[(n % 10) + 1]
    IN  IF n < 10 THEN <<d>> ELSE Str(n \div 10) \o <<d>>

----------------------------------------------------------------------------
(* Regular expressions, matched as Python's backtracking matcher does:     *)
(* alternatives in order, repeats greedy, the first success wins.          *)
(* A pattern is a tree of records:                                         *)
(*   set/nset  one character (not) of the set s                            *)
(*   lit       the characters of w in a row                                *)
(*   cat/alt   the patterns of r in sequence / as ordered alternatives     *)
(*   rep       x repeated lo..hi times (hi = -1: unbounded), greedy        *)
(*   grp       x, captured as group g                                      *)
(*   if        a if group g took part in the match, else b                 *)
(*   bol/eol/wb   ^, $ and \b                                              *)

RSet(S) == [k |-> "set", s |-> S]

RNot(S) == [k |-> "nset", s |-> S]

RLit(w) == [k |-> "lit", w |-> w]

RCat(r) == [k |-> "cat", r |-> r]

RAlt(r) == [k |-> "alt", r |-> r]

RRep(x, lo, hi) == [k |-> "rep", x |-> x, lo |-> lo, hi |-> hi]

ROpt(x) == RRep(x, 0, 1)

RStar(x) == RRep(x, 0, -1)

RPlus(x) == RRep(x, 1, -1)

RGrp(g, x) == [k |-> "grp", g |-> g, x |-> x]

RIf(g, a, b) == [k |-> "if", g |-> g, a |-> a, b |-> b]

RBol == [k |-> "bol"]

REol == [k |-> "eol"]

RWb == [k |-> "wb"]

REmpty == RCat(<<>>)

\* \s* and \s
RSp0 == RStar(RSet(Space))

RSp1 == RSet(Space)

\* the named groups of the patterns of the program
GroupNames == {"inner1", "inner2", "exnum", "paren", "pre", "s", "open",
               "delim", "t", "cm", "oq", "g1"}

NoCap == <<>>

NoCaps == [g \in GroupNames |-> NoCap]

ReFail == [ok |-> FALSE]

\* the order-keeping list of the distinct elements of l
Uniq(l) ==
    LET first == {k \in DOMAIN l : \A j \in 1..(k - 1) : l[j] # l[k]}
    IN  IF Cardinality(first) = Len(l) THEN l
        ELSE <<>> \o [m \in 1..Cardinality(first) |->
                        l[CHOOSE k \in first :
                            Cardinality({j \in first : j < k}) = m - 1]]

\* the matches of pattern n from the state st (i characters of s consumed,
\* groups c matched so far): the states the match can end in, in the order
\* in which backtracking tries them
RECURSIVE ReR(_, _, _)

\* the matches of n from each of the states, in order
RECURSIVE ReFlat(_, _, _)
ReFlat(states, n, s) ==
    LET res[k \in 0..Len(states)] ==
            IF k = 0 THEN <<>> ELSE res[k - 1] \o ReR(n, states[k], s)
    IN  IF Len(states) = 1 THEN ReR(n, states[1], s) ELSE Uniq(res[Len(states)])

\* the matches of the patterns r[k], r[k + 1], ... in a row from the states
RECURSIVE ReCat(_, _, _, _)
ReCat(r, k, states, s) ==
    IF k > Len(r) \/ states = <<>> THEN states
    ELSE ReCat(r, k + 1, ReFlat(states, r[k], s), s)

\* a greedy repeat n of a one-character pattern: the longest run first
ReRun(n, st, s) ==
    LET In(ch) == IF n.x.k = "set" THEN ch \in n.x.s ELSE ch \notin n.x.s
        avail == Len(s) - st.i
        cap == IF n.hi = -1 THEN avail ELSE Min(avail, n.hi)
        run == CHOOSE k \in 0..cap :
                   /\ \A j \in 1..k : In(s[st.i + j])
                   /\ k = cap \/ ~In(s[st.i + k + 1])
    IN  IF run < n.lo THEN <<>>
        ELSE <<>> \o [m \in 1..(run - n.lo + 1) |->
                        [i |-> st.i + run - m + 1, c |-> st.c]]

\* a greedy repeat of which n.n iterations are done, the last one having
\* begun at n.lp: another iteration is tried first, unless the last one,
\* beyond the minimum, was empty
RECURSIVE ReRep(_, _, _)
ReRep(n, st, s) ==
    LET iterate == n.n < n.lo \/ ((n.hi = -1 \/ n.n < n.hi) /\ st.i # n.lp)
        step == IF iterate THEN ReR(n.x, st, s) ELSE <<>>
        nxt == [n EXCEPT !.n = n.n + 1, !.lp = IF n.n < n.lo THEN n.lp ELSE st.i]
        more[k \in 0..Len(step)] ==
            IF k = 0 THEN <<>> ELSE more[k - 1] \o ReRep(nxt, step[k], s)
    IN  Uniq(more[Len(step)] \o (IF n.n >= n.lo THEN <<st>> ELSE <<>>))

ReR(n, st, s) ==
    CASE n.k = "set" ->
           IF st.i < Len(s) /\ s[st.i + 1] \in n.s
           THEN <<[i |-> st.i + 1, c |-> st.c]>> ELSE <<>>
      [] n.k = "nset" ->
           IF st.i < Len(s) /\ s[st.i + 1] \notin n.s
           THEN <<[i |-> st.i + 1, c |-> st.c]>> ELSE <<>>
      [] n.k = "lit" ->
           IF st.i + Len(n.w) <= Len(s)
              /\ SubSeq(s, st.i + 1, st.i + Len(n.w)) = n.w
           THEN <<[i |-> st.i + Len(n.w), c |-> st.c]>> ELSE <<>>
      [] n.k = "cat" -> ReCat(n.r, 1, <<st>>, s)
      [] n.k = "alt" ->
           LET res[k \in 0..Len(n.r)] ==
                   IF k = 0 THEN <<>> ELSE res[k - 1] \o ReR(n.r[k], st, s)
           IN  Uniq(res[Len(n.r)])
      [] n.k = "rep" ->
           IF n.x.k \in {"set", "nset"} THEN ReRun(n, st, s)
           ELSE ReRep([x |-> n.x, lo |-> n.lo, hi |-> n.hi, n |-> 0, lp |-> -1],
                      st, s)
      [] n.k = "grp" ->
           LET rs == ReR(n.x, st, s)
           IN  <<>> \o [k \in DOMAIN rs |->
                          [i |-> rs[k].i,
                           c |-> [rs[k].c EXCEPT ![n.g] = <<st.i, rs[k].i>>]]]
      [] n.k = "if" ->
           IF st.c[n.g] # NoCap THEN ReR(n.a, st, s) ELSE ReR(n.b, st, s)
      [] n.k = "bol" -> IF st.i = 0 THEN <<st>> ELSE <<>>
      [] n.k = "eol" -> IF st.i = Len(s) THEN <<st>> ELSE <<>>
      [] n.k = "wb" ->
           LET before == st.i > 0 /\ s[st.i] \in WordChars
               after == st.i < Len(s) /\ s[st.i + 1] \in WordChars
           IN  IF before # after THEN <<st>> ELSE <<>>

\* a match object: ok, its span [st, e) and its groups c; the first way to
\* match re at position i of s; when advance, an empty match does not count
ReFirst(all, i, advance) ==
    IF \E k \in DOMAIN all : ~advance \/ all[k].i # i
    THEN LET k == CHOOSE k \in DOMAIN all :
                      /\ ~advance \/ all[k].i # i
                      /\ \A j \in 1..(k - 1) : advance /\ all[j].i = i
         IN  [ok |-> TRUE, st |-> i, e |-> all[k].i, c |-> all[k].c]
    ELSE ReFail

ReAt(re, s, i, advance) == ReFirst(ReR(re, [i |-> i, c |-> NoCaps], s), i, advance)

\* re.match(re, s)
ReMatch(re, s) == ReAt(re, s, 0, FALSE)

\* the leftmost match that begins at position from or later; when advance,
\* a match that begins at from itself must not be empty
RECURSIVE ReSearchFrom(_, _, _, _)

\* the match m at position from if there is one, else the leftmost later one
ReOrLater(m, re, s, from) ==
    IF m.ok THEN m ELSE ReSearchFrom(re, s, from + 1, FALSE)

ReSearchFrom(re, s, from, advance) ==
    IF from > Len(s) THEN ReFail
    ELSE ReOrLater(ReAt(re, s, from, advance), re, s, from)

\* re.search(re, s)
ReSearch(re, s) == ReSearchFrom(re, s, 0, FALSE)

\* list(re.finditer(re, s)): the matches from left to right; after an empty
\* match the next one must advance
RECURSIVE ReFindIter(_, _, _, _)

\* the match m and the matches after it
ReAndLater(m, re, s) ==
    IF ~m.ok THEN <<>> ELSE <<m>> \o ReFindIter(re, s, m.e, m.e = m.st)

ReFindIter(re, s, from, advance) ==
    ReAndLater(ReSearchFrom(re, s, from, advance), re, s)

\* m.group(g), or "" when the group took no part (the places that read it
\* treat None and '' alike)
Group(m, s, g) ==
    IF m.c[g] = NoCap THEN <<>> ELSE Slice(s, m.c[g][1], m.c[g][2])

\* m.group(0)
Group0(m, s) == Slice(s, m.st, m.e)

\* re.sub(re, repl, s) where repl(m) is the replacement of match m
ReSubMatches(ms, s, Repl(_)) ==
    LET done[k \in 0..Len(ms)] ==
            IF k = 0 THEN <<>>
            ELSE done[k - 1]
                 \o Slice(s, IF k = 1 THEN 0 ELSE ms[k - 1].e, ms[k].st)
                 \o Repl(ms[k])
    IN  done[Len(ms)] \o Slice(s, IF ms = <<>> THEN 0 ELSE ms[Len(ms)].e, Len(s))

ReSub(re, s, Repl(_)) == ReSubMatches(ReFindIter(re, s, 0, FALSE), s, Repl)

\* the replacement '' and the replacement function whitespace(m)
ReplEmpty(m) == <<>>

whitespace(m) == Spaces(m.e - m.st)

----------------------------------------------------------------------------
(* The quote table.                                                        *)

\* QUOTEPAIRS: each opening quote with the quotes that may close it
QUOTEPAIRS ==
    [q \in {"u0022", "'", "u0060", "u00ab", "u00bb", "u2018", "u2019", "u201a",
            "u201b", "u201c", "u201d", "u201e", "u201f", "u2039", "u203a",
            "u300c", "u300e", "u301d", "u301f", "ufe41", "ufe43", "uff02",
            "uff07", "uff62"} |->
       CASE q = "u0022" -> {"u0022"}
         [] q = "'" -> {"'"}
         [] q = "u0060" -> {"'"}
         [] q = "u00ab" -> {"u00bb"}
         [] q = "u00bb" -> {"u00ab", "u00bb"}
         [] q = "u2018" -> {"u2019"}
         [] q = "u2019" -> {"u2019"}
         [] q = "u201a" -> {"u201b", "u2018", "u2019"}
         [] q = "u201b" -> {"u2019"}
         [] q = "u201c" -> {"u201d"}
         [] q = "u201d" -> {"u201d"}
         [] q = "u201e" -> {"u201c", "u201d"}
         [] q = "u201f" -> {"u201d"}
         [] q = "u2039" -> {"u203a"}
         [] q = "u203a" -> {"u2039", "u203a"}
         [] q = "u300c" -> {"u300d"}
         [] q = "u300e" -> {"u300f"}
         [] q = "u301d" -> {"u301e"}
         [] q = "u301f" -> {"u301e"}
         [] q = "ufe41" -> {"ufe42"}
         [] q = "ufe43" -> {"ufe44"}
         [] q = "uff02" -> {"uff02"}
         [] q = "uff07" -> {"uff07"}
         [] q = "uff62" -> {"uff63"}]

\* the character classes [OPENQUOTES] and [CLOSEQUOTES]
OPENQUOTES == DOMAIN QUOTEPAIRS

CLOSEQUOTES == UNION {QUOTEPAIRS[q] : q \in OPENQUOTES}

----------------------------------------------------------------------------
(* The patterns of the stages.                                             *)

\* ^\s*[(\[]?\s*\S+\s*\.?\s*[)\]]?\s*:
marked_re ==
    RCat(<<RBol, RSp0, ROpt(RSet({"(", "["})), RSp0, RPlus(RNot(Space)), RSp0,
           ROpt(RSet({"."})), RSp0, ROpt(RSet({")", "]"})), RSp0, RSet({":"})>>)

\* [CLOSEQUOTES] *\)* *$
end_match_re ==
    RCat(<<RSet(CLOSEQUOTES), RStar(RSet({" "})), RStar(RSet({")"})),
           RStar(RSet({" "})), REol>>)

\* ([^X]*(\([^)]*\))?)[0-9]*([^X]*(\([^)]*\))?) for the closing bracket X
CitationInner(X) ==
    RCat(<<RStar(RNot({X})),
           ROpt(RCat(<<RSet({"("}), RStar(RNot({")"})), RSet({")"})>>)),
           RStar(RSet(Digits)),
           RStar(RNot({X})),
           ROpt(RCat(<<RSet({"("}), RStar(RNot({")"})), RSet({")"})>>))>>)

citation_re ==
    RCat(<<RAlt(<<RCat(<<RRep(RSp1, 3, 3),
                         RRep(RCat(<<RSet({" "}),
                                     RPlus(RSet({"-"} \cup LowerAZ \cup UpperAZ))>>),
                              1, 4),
                         ROpt(RSet({" "}))>>),
                  ROpt(RSet({"="}))>>),
           RAlt(<<RCat(<<RSet({"["}), RGrp("inner1", CitationInner("]")),
                         RSet({"]"})>>),
                  RCat(<<RSet({"("}), RGrp("inner2", CitationInner(")")),
                         RSet({")"})>>)>>),
           RSp0, REol>>)

\* \s*[OPENQUOTES].*[CLOSEQUOTES]\s*$ (re.match: anchored at the start)
quoted_inner_re ==
    RCat(<<RSp0, RSet(OPENQUOTES), RStar(RNot({"\n"})), RSet(CLOSEQUOTES),
           RSp0, REol>>)

\* ex_num_re, compiled with re.I
ex_num_re ==
    RCat(<<RBol,
           RGrp("exnum",
             RCat(<<RSp0,
                    ROpt(RGrp("paren", RSet({"(", "["}))),
                    RSp0,
                    ROpt(RGrp("pre", RAlt(<<RCat(<<RSet(CI({"e"})), RSet(CI({"x"}))>>),
                                            RSet(WordChars)>>))),
                    RIf("pre",
                        RPlus(RSet(Digits \cup {"."})),
                        RAlt(<<RCat(<<RPlus(RSet(Digits \cup {"."})),
                                      ROpt(RSet(WordChars))>>),
                               RSet(WordChars),
                               RPlus(RSet(CI({"i", "v", "x", "l", "c"})))>>)),
                    RIf("paren",
                        RStar(RSet({"'", "."})),
                        RSet({"'", ".", ")"})),
                    RIf("paren",
                        RCat(<<RSp0, RSet({")", "]"})>>),
                        REmpty)>>)),
           RSp1>>)

----------------------------------------------------------------------------
(* Items.  An item is an object: a heap h is a sequence of item records    *)
(* and a reference is an index into it.  An absent value (None, a missing  *)
(* attribute) is written None.                                             *)

None == <<"None">>

\* the truth value of a string or None
Truthy(x) == x # None /\ x # <<>>

\* x or ''
OrEmpty(x) == IF x = None THEN <<>> ELSE x

\* the attribute dict of an item; absent keys are None
Attrs(tag, line) == [tag |-> tag, line |-> line, judgment |-> None, note |-> None]

\* Item(id=id, type=type, attributes=attributes, text=text): the reference
\* attributes are not given and the attribute dict is copied
Item(id, type, attributes, text) ==
    [id |-> id, type |-> type, attributes |-> attributes, text |-> text,
     alignment |-> None, content |-> None, segmentation |-> None]

\* the result of a stage: the heap, the list returned, the exception raised
Ret(h, items) == [h |-> h, items |-> items, err |-> ""]

Raise(h, items, e) == [h |-> h, items |-> items, err |-> e]

\* the items of a list of references
Deref(h, refs) == [i \in DOMAIN refs |-> h[refs[i]]]

PRITAGS == {<<"L">>, <<"G">>, <<"T">>, <<"L", "-", "G">>, <<"L", "-", "T">>,
            <<"G", "-", "T">>, <<"L", "-", "G", "-", "T">>, <<"M">>, <<"B">>,
            <<"C">>}

SECTAGS == {<<"A", "C">>, <<"A", "L">>, <<"C", "N">>, <<"C", "R">>, <<"D", "B">>,
            <<"E", "X">>, <<"L", "N">>, <<"L", "T">>, <<"S", "Y">>}

\* copy_items with the reference attributes copied too
copy_items_with_references(h, items) ==
    [h |-> h \o [i \in DOMAIN items |->
                   [Item(h[items[i]].id, h[items[i]].type,
                         h[items[i]].attributes, h[items[i]].text)
                    EXCEPT !.alignment = h[items[i]].alignment,
                           !.content = h[items[i]].content,
                           !.segmentation = h[items[i]].segmentation]],
     items |-> [i \in DOMAIN items |-> Len(h) + i],
     err |-> ""]

\* the list given, its items not copied
copy_items_shared(h, items) == Ret(h, items)

copy_items(h, items) ==
    [h |-> h \o [i \in DOMAIN items |->
                   Item(h[items[i]].id, h[items[i]].type,
                        h[items[i]].attributes, h[items[i]].text)],
     items |-> [i \in DOMAIN items |-> Len(h) + i],
     err |-> ""]

get_tags(item) == Split(OrEmpty(item.attributes.tag), "+")

\* remove_blank_items without the strip: only items without text go
remove_blank_items_unstripped(h, items) ==
    Ret(h, SelectSeq(items, LAMBDA r : OrEmpty(h[r].text) # <<>>))

remove_blank_items(h, items) ==
    Ret(h, SelectSeq(items, LAMBDA r : Strip(OrEmpty(h[r].text)) # <<>>))

\* the values v[i] that are true, in order
Present(v) == SelectSeq(v, Truthy)

\* list.remove(x): without the first occurrence of x
RemoveFirst(l, x) ==
    LET i == CHOOSE j \in DOMAIN l : l[j] = x /\ \A k \in 1..(j - 1) : l[k] # x
    IN  SubSeq(l, 1, i - 1) \o SubSeq(l, i + 1, Len(l))

\* the tag merge_items gives the base item
MergedTag(its) ==
    LET tags == [i \in DOMAIN its |-> get_tags(its[i])]
        pri_tags == {tags[i][1] : i \in {j \in DOMAIN its : tags[j][1] # <<>>}}
        sec_tags == UNION {Range(Tail(tags[i])) : i \in DOMAIN its}
        tag == Replace(Join(<<"-">>, Sorted(pri_tags)),
                       <<"G", "-", "L">>, <<"L", "-", "G">>)
    IN  IF sec_tags # {} THEN tag \o <<"+">> \o Join(<<"+">>, Sorted(sec_tags))
        ELSE tag

\* RefConflict with the content attribute overlooked
RefConflictNoContent(alignment, content, segmentation) ==
    Truthy(segmentation) /\ Truthy(alignment)

\* the condition of merge_items' ValueError
RefConflict(alignment, content, segmentation) ==
    Truthy(segmentation) /\ (Truthy(alignment) \/ Truthy(content))

\* merge_items(*items): the first item is the base and is changed in place
merge_items(h, items) ==
    LET its == Deref(h, items)
        alignment == Join(<<",">>, Present([i \in DOMAIN its |-> its[i].alignment]))
        content == Join(<<",">>, Present([i \in DOMAIN its |-> its[i].content]))
        segmentation ==
            Join(<<",">>, Present([i \in DOMAIN its |-> its[i].segmentation]))
    IN  IF RefConflict(alignment, content, segmentation)
        THEN Raise(h, items, "ValueError")
        ELSE IF \E i \in DOMAIN its : its[i].text = None
        THEN Raise(h, items, "TypeError")
        ELSE Ret([h EXCEPT ![items[1]] =
                    [@ EXCEPT
                       !.text = Join(<<" ">>, [i \in DOMAIN its |-> its[i].text]),
                       !.attributes =
                           [@ EXCEPT
                              !.line = Join(<<" ">>, [i \in DOMAIN its |->
                                                        its[i].attributes.line]),
                              !.tag = MergedTag(its)],
                       !.alignment = IF Truthy(alignment) THEN alignment ELSE @,
                       !.content = IF Truthy(content) THEN content ELSE @,
                       !.segmentation =
                           IF Truthy(segmentation) THEN segmentation ELSE @]],
                 items)

\* ContinuationText with the text left as it is
ContinuationTextKept(text) == text

\* item.text.lstrip(): the text of a continuation item as it is merged
ContinuationText(text) == LStrip(text)

\* the loop of rejoin_continuations from item i on
RECURSIVE rejoin_continuations_from(_, _, _, _)
rejoin_continuations_from(h, items, i, new_items) ==
    IF i > Len(items) THEN Ret(h, new_items)
    ELSE LET r == items[i]
             tags == get_tags(h[r])
         IN  IF tags[1] = <<"C">> /\ new_items # <<>>
             THEN LET h1 == [h EXCEPT ![r] =
                               [@ EXCEPT !.text = ContinuationText(@),
                                         !.attributes.tag = Tail(@)]]
                      m == merge_items(h1, <<new_items[Len(new_items)], r>>)
                  IN  IF m.err # "" THEN Raise(m.h, new_items, m.err)
                      ELSE rejoin_continuations_from(m.h, items, i + 1, new_items)
             ELSE rejoin_continuations_from(h, items, i + 1, Append(new_items, r))

rejoin_continuations(h, items) == rejoin_continuations_from(h, items, 1, <<>>)

\* is_t of rejoin_translations
IsPlainT(item) ==
    LET tags == get_tags(item)
    IN  tags[1] = <<"T">> /\ <<"D", "B">> \notin Range(tags)
        /\ <<"C", "R">> \notin Range(tags)

\* EndsQuoted with no text taken to end in a quotation mark
EndsQuotedNever(text) == FALSE

\* end_match is not None: the text ends with a closing quotation mark, then
\* at most spaces and closing parentheses
EndsQuoted(text) == ReSearch(end_match_re, text).ok

\* the loop of rejoin_translations from item i on
RECURSIVE rejoin_translations_from(_, _, _, _, _, _)
rejoin_translations_from(h, items, i, new_items, prev_is_t, prev_end) ==
    IF i > Len(items) THEN Ret(h, new_items)
    ELSE LET r == items[i]
             is_t == IsPlainT(h[r])
             marked == ReMatch(marked_re, h[r].text).ok
         IN  IF prev_is_t /\ is_t /\ ~marked /\ ~prev_end
             THEN LET h1 == [h EXCEPT ![r].text = LStrip(@)]
                      m == merge_items(h1, <<new_items[Len(new_items)], r>>)
                  IN  IF m.err # "" THEN Raise(m.h, new_items, m.err)
                      ELSE rejoin_translations_from(
                               m.h, items, i + 1, new_items, prev_is_t,
                               EndsQuoted(m.h[r].text))
             ELSE rejoin_translations_from(
                      h, items, i + 1, Append(new_items, r), is_t,
                      EndsQuoted(h[r].text))

rejoin_translations(h, items) ==
    rejoin_translations_from(h, items, 1, <<>>, FALSE, FALSE)

\* l[::-1]
Reverse(l) == [i \in DOMAIN l |-> l[Len(l) + 1 - i]]

\* items[a:] for an index a that may be -1 (the last item on)
SliceFrom(l, a) ==
    IF a < 0 THEN SubSeq(l, Max(Len(l) + a, 0) + 1, Len(l))
    ELSE SubSeq(l, a + 1, Len(l))

\* items[a::-1] for an index a that may be -1: from item a down to the first
SliceDownFrom(l, a) ==
    IF a < 0 THEN Reverse(SubSeq(l, 1, Len(l) + a + 1))
    ELSE Reverse(SubSeq(l, 1, Min(a + 1, Len(l))))

\* the items removable(m, t, i) searches, in order, for an item i (0-based)
\* of role t
CitationOthers(items, t, i) ==
    IF t = <<"L">> THEN SliceFrom(items, i + 1) \o SliceDownFrom(items, i - 1)
    ELSE SliceFrom(items, i - 1) \o SliceDownFrom(items, i - 1)

\* next((x for x in others if get_tags(x)[0] == t2), None), as a list of
\* no or one reference
FirstOfRole(h, others, t2) ==
    LET hit == SelectSeq(others, LAMBDA r : get_tags(h[r])[1] = t2)
    IN  IF hit = <<>> THEN <<>> ELSE <<hit[1]>>

\* m.group('inner1') or m.group('inner2')
CitationInnerOf(m, s) ==
    IF m.c["inner1"] # NoCap /\ Group(m, s, "inner1") # <<>>
    THEN Group(m, s, "inner1")
    ELSE IF m.c["inner2"] = NoCap THEN None ELSE Group(m, s, "inner2")

\* removable(m, t, i) of remove_citations: "yes", "no", or "TypeError"
\* (re.match on None)
CitationRemovable(h, items, m, t, i) ==
    IF t \in {<<"L">>, <<"G">>}
    THEN LET other == FirstOfRole(h, CitationOthers(items, t, i),
                                  IF t = <<"L">> THEN <<"G">> ELSE <<"L">>)
         IN  IF other # <<>>
                /\ Strip(Slice(OrEmpty(h[other[1]].text), m.st, m.e)) # <<>>
             THEN "no" ELSE "yes"
    ELSE LET inner == CitationInnerOf(m, h[items[i + 1]].text)
         IN  IF inner = None THEN "TypeError"
             ELSE IF ReMatch(quoted_inner_re, inner).ok THEN "no" ELSE "yes"

\* the first of the tags, in their order, that is AC, LN or CN
CitationMovedTagInOrder(tags) ==
    LET movable == SelectSeq(tags, LAMBDA t : t \in {<<"A", "C">>, <<"L", "N">>,
                                                     <<"C", "N">>})
    IN  IF movable = <<>> THEN None ELSE movable[1]

\* the secondary tag that moves to the citation's M item, if any
CitationMovedTag(tags) ==
    IF <<"A", "C">> \in Range(tags) THEN <<"A", "C">>
    ELSE IF <<"L", "N">> \in Range(tags) THEN <<"L", "N">>
    ELSE IF <<"C", "N">> \in Range(tags) THEN <<"C", "N">>
    ELSE None

\* CitationCut with the blanks before the citation left in place
CitationCutUnstripped(text) == ReSub(citation_re, text, ReplEmpty)

\* citation_re.sub('', item.text).rstrip(): the text without its citation
CitationCut(text) == RStrip(ReSub(citation_re, text, ReplEmpty))

\* the loop of remove_citations from item i (1-based) on
RECURSIVE remove_citations_from(_, _, _, _)
remove_citations_from(h, items, i, new_items) ==
    IF i > Len(items) THEN Ret(h, new_items)
    ELSE
    LET r == items[i]
        item == h[r]
        tags == get_tags(item)
        new1 == Append(new_items, r)
    IN  IF tags[1] \notin {<<"L">>, <<"G">>, <<"T">>, <<"L", "-", "G">>,
                           <<"L", "-", "T">>, <<"L", "-", "G", "-", "T">>}
        THEN remove_citations_from(h, items, i + 1, new1)
        ELSE
        LET match == ReSearch(citation_re, item.text)
            rem == IF match.ok THEN CitationRemovable(h, items, match, tags[1], i - 1)
                   ELSE "no"
        IN  IF rem = "TypeError" THEN Raise(h, new1, "TypeError")
            ELSE IF rem = "no" THEN remove_citations_from(h, items, i + 1, new1)
            ELSE
            LET moved == CitationMovedTag(tags)
                tags1 == IF moved = None THEN tags ELSE RemoveFirst(tags, moved)
                m_tags == IF moved = None THEN <<<<"M">>>> ELSE <<<<"M">>, moved>>
                meta_item == [Item(item.id, None, item.attributes,
                                   Strip(Group0(match, item.text)))
                              EXCEPT !.attributes.tag = Join(<<"+">>, m_tags)]
                h1 == [h EXCEPT ![r] =
                         [@ EXCEPT !.text = CitationCut(@),
                                   !.attributes.tag = Join(<<"+">>, tags1)]]
            IN  remove_citations_from(Append(h1, meta_item), items, i + 1,
                                      Append(new1, Len(h) + 1))

remove_citations(h, items) == remove_citations_from(h, items, 1, <<>>)

\* ExNumRelevant without the composite tags
ExNumRelevantSingle == {<<"L">>, <<"G">>, <<"T">>}

\* the primary tags of the items removable(m) looks at
ExNumRelevant == {<<"L">>, <<"G">>, <<"T">>, <<"L", "-", "G">>, <<"G", "-", "T">>,
                  <<"L", "-", "T">>, <<"L", "-", "G", "-", "T">>}

\* ExNumRemovable with no other item looked at
ExNumRemovableAlways(h, items, m, s) == TRUE

\* removable(m) of remove_example_numbers
ExNumRemovable(h, items, m, s) ==
    LET end == m.e - 1
        mtext == Group(m, s, "exnum")
    IN  \A k \in DOMAIN items :
           LET tags == get_tags(h[items[k]])
               text == Slice(OrEmpty(h[items[k]].text), m.st, end)
           IN  tags[1] \in ExNumRelevant
               => ~(text # mtext /\ Strip(text) # <<>>)

\* the while loop of remove_example_numbers on item r
RECURSIVE ExNumStrip(_, _, _)
ExNumStrip(h, items, r) ==
    LET m == ReMatch(ex_num_re, h[r].text)
    IN  IF m.ok /\ ExNumRemovable(h, items, m, h[r].text)
        THEN ExNumStrip([h EXCEPT ![r].text = ReSub(ex_num_re, @, whitespace)],
                        items, r)
        ELSE h

\* the loop of remove_example_numbers from item i on
RECURSIVE remove_example_numbers_from(_, _, _)
remove_example_numbers_from(h, items, i) ==
    IF i > Len(items) THEN Ret(h, items)
    ELSE LET r == items[i]
             tags == get_tags(h[r])
         IN  IF tags[1] \in {<<"L", "-", "G">>, <<"L", "-", "T">>, <<"G", "-", "T">>,
                             <<"L", "-", "G", "-", "T">>}
             THEN remove_example_numbers_from(
                      [h EXCEPT ![r].text = ReSub(ex_num_re, @, whitespace)],
                      items, i + 1)
             ELSE IF tags[1] \in {<<"L">>, <<"G">>, <<"T">>}
             THEN remove_example_numbers_from(ExNumStrip(h, items, r), items, i + 1)
             ELSE remove_example_numbers_from(h, items, i + 1)

remove_example_numbers(h, items) == remove_example_numbers_from(h, items, 1)

\* a for loop over a list of references: Body(h, r) is the heap after the
\* body has run on item r
ForEach(h, items, Body(_, _)) ==
    LET after[i \in 0..Len(items)] ==
            IF i = 0 THEN h
            ELSE LET before == after[i - 1]
                 IN  IF Len(before) >= 0 THEN Body(before, items[i]) ELSE before
    IN  after[Len(items)]

\* (\S*(?:\s*[delims]\s*\S*)+)
HyphenRe(delims) ==
    RCat(<<RStar(RNot(Space)),
           RPlus(RCat(<<RSp0, RSet(delims), RSp0, RStar(RNot(Space))>>))>>)

\* s.replace(' ', '')
Unspaced(s) == SelectSeq(s, LAMBDA c : c # " ")

rejoin_hyphenated_grams(h, r) ==
    LET tags == get_tags(h[r])
        text == h[r].text
        delims == IF tags[1] = <<"G">> THEN {"-", "=", "."} ELSE {"-", "="}
    IN  IF tags[1] \in {<<"L">>, <<"L", "-", "G">>, <<"G">>}
        THEN [h EXCEPT ![r].text =
                RStrip(ReSub(HyphenRe(delims), text,
                             LAMBDA m : Unspaced(Slice(text, m.st, m.e))))]
        ELSE h

JudgmentSymbols == {"*", "?", "#"}

\* ^\s*([*?#]+)[^/]+$
judgment_re ==
    RCat(<<RBol, RSp0, RGrp("g1", RPlus(RSet(JudgmentSymbols))),
           RPlus(RNot({"/"})), REol>>)

\* ^(\s*)[*?#]+\s*
judgment_strip_re ==
    RCat(<<RBol, RGrp("g1", RSp0), RPlus(RSet(JudgmentSymbols)), RSp0>>)

extract_judgment(h, r) ==
    LET tags == get_tags(h[r])
        text == h[r].text
        match == ReMatch(judgment_re, text)
    IN  IF tags[1] = <<"M">> \/ <<"C", "R">> \in Range(tags) THEN h
        ELSE [h EXCEPT ![r] =
                [@ EXCEPT
                   !.attributes.judgment =
                       IF match.ok THEN Group(match, text, "g1") ELSE @,
                   !.text = ReSub(judgment_strip_re, text,
                                  LAMBDA m : Group(m, text, "g1"))]]

\* the body of the for loop of normalize_items over the items
NormalizeItem(h, r) ==
    LET h1 == [h EXCEPT ![r].alignment = h[r].id]
        h2 == rejoin_hyphenated_grams(h1, r)
        h3 == extract_judgment(h2, r)
        tags == get_tags(h3[r])
    IN  IF tags[1] = <<"B">>
        THEN [h3 EXCEPT ![r].attributes.tag = Join(<<"+">>, <<<<"M">>>> \o Tail(tags))]
        ELSE h3

\* ^\s*[OPENQUOTES]? and [CLOSEQUOTES]\s*$
unquote_open_re == RCat(<<RBol, RSp0, ROpt(RSet(OPENQUOTES))>>)

unquote_close_re == RCat(<<RSet(CLOSEQUOTES), RSp0, REol>>)

UnquoteItem(h, r) ==
    IF get_tags(h[r])[1] = <<"T">>
    THEN [h EXCEPT ![r].text =
            ReSub(unquote_close_re, ReSub(unquote_open_re, @, ReplEmpty), ReplEmpty)]
    ELSE h

unquote_translations(h, items) == Ret(ForEach(h, items, UnquoteItem), items)

\* re.match(r'\s*', text).end()
Indent(text) == LeadIn(text, Space)

\* min(S or [0]) for a set S of numbers
MinOr0(S) == IF S = {} THEN 0 ELSE CHOOSE x \in S : \A y \in S : x <= y

\* min_indent with the M and B items counted too
min_indent_with_meta(h, items, tags) ==
    MinOr0({Indent(h[items[i]].text) :
              i \in {j \in DOMAIN items :
                       get_tags(h[items[j]])[1] \in tags \cup {<<"M">>, <<"B">>}}})

min_indent(h, items, tags) ==
    MinOr0({Indent(h[items[i]].text) :
              i \in {j \in DOMAIN items :
                       get_tags(h[items[j]])[1] \in tags \ {<<"M">>, <<"B">>}}})

shift_left(h, items, tags) ==
    LET maxshift == min_indent(h, items, tags)
        Body(hh, r) ==
            LET tag == get_tags(hh[r])[1]
            IN  IF tag = <<"M">> THEN [hh EXCEPT ![r].text = Strip(@)]
                ELSE IF tag \in tags \ {<<"M">>, <<"B">>}
                THEN [hh EXCEPT ![r].text = Slice(@, maxshift, Len(@))]
                ELSE hh
    IN  Ret(ForEach(h, items, Body), items)

\* the quoted translation of basic_quoted_trans_re and pre_trans_re (re.I):
\*   ((?P<cm>,)|(?P<oq>[OPENQUOTES]))
\*   (s\' \w|\'\w|," |[^CLOSEQUOTES OPENQUOTES])+
\*   ((?(oq)([CLOSEQUOTES]|[^OPENQUOTES]*|\s*$)|(?(cm)[CLOSEQUOTES`]|[^OPENQUOTES]*)))
basic_quoted_trans_re ==
    RCat(<<RAlt(<<RGrp("cm", RSet({","})), RGrp("oq", RSet(OPENQUOTES))>>),
           RPlus(RAlt(<<RCat(<<RSet(CI({"s"})), RSet({"'"}), RSet({" "}),
                               RSet(WordChars)>>),
                        RCat(<<RSet({"'"}), RSet(WordChars)>>),
                        RCat(<<RSet({","}), RSet({"u0022"}), RSet({" "})>>),
                        RNot(CLOSEQUOTES \cup OPENQUOTES)>>)),
           RIf("oq",
               RAlt(<<RSet(CLOSEQUOTES), RStar(RNot(OPENQUOTES)),
                      RCat(<<RSp0, REol>>)>>),
               RIf("cm", RSet(CLOSEQUOTES \cup {"u0060"}),
                   RStar(RNot(OPENQUOTES))))>>)

\* pre_trans_re (re.I): the group s, what comes before a translation,
\*   \s*,?(?P<open>[(\[])?\s*(?P<pre>(?: *[^OPENQUOTES (:,]*){1,3})(?P<delim>[:=.])?\s*
\* and the group t, the translation: quoted, or
\*   (?(delim)(?(open)[^)\]]+|[^(\[]+))
pre_trans_re ==
    RCat(<<RGrp("s",
             RCat(<<RSp0, ROpt(RSet({","})), ROpt(RGrp("open", RSet({"(", "["}))),
                    RSp0,
                    RGrp("pre",
                      RRep(RCat(<<RStar(RSet({" "})),
                                  RStar(RNot(OPENQUOTES \cup {" ", "(", ":", ","}))>>),
                           1, 3)),
                    ROpt(RGrp("delim", RSet({":", "=", "."}))),
                    RSp0>>)),
           RGrp("t",
             RAlt(<<basic_quoted_trans_re,
                    RIf("delim",
                        RIf("open", RPlus(RNot({")", "]"})), RPlus(RNot({"(", "["}))),
                        REmpty)>>))>>)

\* lit(?:eral(?:ly)?)?
literal_re ==
    RCat(<<RLit(<<"l", "i", "t">>),
           ROpt(RCat(<<RLit(<<"e", "r", "a", "l">>), ROpt(RLit(<<"l", "y">>))>>))>>)

\* (or|also|ii+|\b[bcd]\.)[ :,]
alternate_re ==
    RCat(<<RAlt(<<RLit(<<"o", "r">>), RLit(<<"a", "l", "s", "o">>),
                  RCat(<<RLit(<<"i">>), RPlus(RSet({"i"}))>>),
                  RCat(<<RWb, RSet({"b", "c", "d"}), RSet({"."})>>)>>),
           RSet({" ", ":", ","})>>)

\* the parts (pre, t) of a translation line, regrouped, from match k on
RECURSIVE TransParts(_, _, _, _)
TransParts(matches, text, k, parts) ==
    IF k > Len(matches) THEN parts
    ELSE LET pre == Strip(Group(matches[k], text, "pre"))
             t == Strip(Group(matches[k], text, "t"))
         IN  IF parts # <<>> /\ pre # <<>> /\ t = <<>>
             THEN TransParts(matches, text, k + 1,
                             [parts EXCEPT ![Len(parts)].t =
                                 @ \o Group(matches[k], text, "s")])
             ELSE TransParts(matches, text, k + 1,
                             Append(parts, [pre |-> pre, t |-> t]))

\* the items separate_secondary_translations makes of the parts of an item
SplitItems(item, tags, parts) ==
    [i \in DOMAIN parts |->
       LET new_tags ==
               IF ReSearch(literal_re, parts[i].pre).ok
               THEN (IF <<"L", "T">> \in Range(tags) THEN tags
                     ELSE Append(tags, <<"L", "T">>))
               ELSE IF ReSearch(alternate_re, parts[i].pre).ok
               THEN (IF <<"A", "L">> \in Range(tags) THEN tags
                     ELSE Append(tags, <<"A", "L">>))
               ELSE tags
       IN  Item(item.id \o <<"_">> \o Str(i - 1), None,
                [item.attributes EXCEPT
                   !.note = IF parts[i].pre # <<>> THEN parts[i].pre ELSE @,
                   !.tag = Join(<<"+">>, new_tags)],
                parts[i].t)]

\* the second loop of separate_secondary_translations from item i on
RECURSIVE separate_from(_, _, _, _)
separate_from(h, items, i, new_items) ==
    IF i > Len(items) THEN Ret(h, new_items)
    ELSE
    LET r == items[i]
        tags == get_tags(h[r])
        text == h[r].text
        matches == SelectSeq(ReFindIter(pre_trans_re, text, 0, FALSE),
                             LAMBDA m : Strip(Group(m, text, "pre")) # <<>>
                                        \/ Strip(Group(m, text, "t")) # <<>>)
    IN  IF tags[1] = <<"T">> /\ <<"C", "R">> \notin Range(Tail(tags))
           /\ (":" \in Range(text) \/ ReSearch(basic_quoted_trans_re, text).ok)
           /\ matches # <<>>
        THEN LET parts == TransParts(matches, text, 1, <<>>)
                 tags1 == IF Len(parts) > 1
                          THEN SelectSeq(tags, LAMBDA t :
                                   t \notin {<<"A", "L">>, <<"L", "T">>, <<"D", "B">>})
                          ELSE tags
                 new == SplitItems(h[r], tags1, parts)
             IN  separate_from(h \o new, items, i + 1,
                               new_items \o [k \in DOMAIN new |-> Len(h) + k])
        ELSE separate_from(h, items, i + 1, Append(new_items, r))

\* separate_secondary_translations without the first loop: DB is not looked for
separate_secondary_translations_always(h, items) == separate_from(h, items, 1, <<>>)

separate_secondary_translations(h, items) ==
    IF \E i \in DOMAIN items :
          LET tags == get_tags(h[items[i]])
          IN  tags[1] \in {<<"L">>, <<"G">>, <<"L", "-", "G">>}
              /\ <<"D", "B">> \in Range(Tail(tags))
    THEN Ret(h, items)
    ELSE separate_from(h, items, 1, <<>>)

\* the signature of dewrap_lines: the tags of the L, G and T items
DewrapSig(h, items) ==
    LET lgt == SelectSeq(items, LAMBDA r : get_tags(h[r])[1] \in
                                           {<<"L">>, <<"G">>, <<"T">>})
    IN  Join(<<" ">>, [i \in DOMAIN lgt |-> h[lgt[i]].attributes.tag])

\* any(x in sig for x in xs)
AnyIn(sig, xs) == \E x \in xs : Contains(sig, x)

\* the patterns that tell wrapped source and gloss lines, and what rules
\* them out
WrapLG == {<<"L", " ", "G", " ", "L", " ", "G", " ">>,
           <<"L", " ", "G", " ", "T", " ", "L", " ", "G", " ", "T">>,
           <<"G", " ", "G", " ">>, <<"L", " ", "L", " ">>}

NoiseLG == {<<"L", "+">>, <<"L", "-">>, <<"G", "+">>, <<"G", "-">>}

\* the patterns that tell wrapped translations, and what rules them out
WrapT == {<<"L", " ", "G", " ", "T", " ", "L", " ", "G", " ", "T">>,
          <<"T", " ", "T", "+", "A", "C">>, <<"T", " ", "T", "+", "L", "N">>,
          <<"T", " ", "T">>}

NoiseT == {<<"+", "E", "X">>, <<"+", "L", "T">>, <<"+", "A", "L">>,
           <<"T", "+", "C", "R">>}

\* the items whose tag attribute is one of tags, in order
WithTag(h, items, tags) == SelectSeq(items, LAMBDA r : h[r].attributes.tag \in tags)

\* the loop over zip_longest(ls, gs) from pair k on: both texts of a pair are
\* padded to the longer one
RECURSIVE PadPairs(_, _, _, _)
PadPairs(h, ls, gs, k) ==
    IF k > Len(ls) \/ k > Len(gs) THEN h
    ELSE LET maxlen == Max(Len(h[ls[k]].text), Len(h[gs[k]].text))
             h1 == [h EXCEPT ![ls[k]].text = LJust(@, maxlen)]
             h2 == [h1 EXCEPT ![gs[k]].text = LJust(@, maxlen)]
         IN  PadPairs(h2, ls, gs, k + 1)

\* the loop "add everything unused up to the first translation" from item i
RECURSIVE UpToFirstT(_, _, _, _, _)
UpToFirstT(h, items, i, unwrapped, used) ==
    IF i > Len(items) THEN [unwrapped |-> unwrapped, used |-> used]
    ELSE IF h[items[i]].attributes.tag \in {<<"T">>, <<"T", "+", "A", "C">>}
    THEN [unwrapped |-> unwrapped, used |-> used]
    ELSE IF items[i] \notin used
    THEN UpToFirstT(h, items, i + 1, Append(unwrapped, items[i]),
                    used \cup {items[i]})
    ELSE UpToFirstT(h, items, i + 1, unwrapped, used)

\* the loop "finally add anything unused" from item i
RECURSIVE AddUnused(_, _, _, _)
AddUnused(items, i, unwrapped, used) ==
    IF i > Len(items) THEN unwrapped
    ELSE IF items[i] \notin used
    THEN AddUnused(items, i + 1, Append(unwrapped, items[i]), used \cup {items[i]})
    ELSE AddUnused(items, i + 1, unwrapped, used)

\* dewrap_lines after the source and gloss lines are done: s is the state
\* reached (heap, unwrapped, used)
DewrapTranslations(s, items, sig) ==
    LET a == UpToFirstT(s.h, items, 1, s.unwrapped, s.used)
        ts == WithTag(s.h, items, {<<"T">>, <<"T", "+", "A", "C">>,
                                   <<"T", "+", "L", "N">>})
        wrapped == AnyIn(sig, WrapT) /\ ~AnyIn(sig, NoiseT)
        m == IF wrapped /\ ts # <<>> THEN merge_items(s.h, ts) ELSE Ret(s.h, ts)
        unwrapped1 == IF wrapped /\ ts # <<>> THEN Append(a.unwrapped, ts[1])
                      ELSE a.unwrapped
        used1 == IF wrapped THEN a.used \cup Range(ts) ELSE a.used
    IN  IF m.err # "" THEN Raise(m.h, unwrapped1, m.err)
        ELSE Ret(m.h, AddUnused(items, 1, unwrapped1, used1))

dewrap_lines(h, items) ==
    LET sig == DewrapSig(h, items)
        ls == WithTag(h, items, {<<"L">>})
        gs == WithTag(h, items, {<<"G">>})
        wrapped == AnyIn(sig, WrapLG) /\ ~AnyIn(sig, NoiseLG)
        h1 == PadPairs(h, ls, gs, 1)
        ml == IF ls # <<>> THEN merge_items(h1, ls) ELSE Ret(h1, ls)
        mg == IF gs # <<>> THEN merge_items(ml.h, gs) ELSE Ret(ml.h, gs)
        unwrapped == (IF ls # <<>> THEN <<ls[1]>> ELSE <<>>)
                     \o (IF gs # <<>> THEN <<gs[1]>> ELSE <<>>)
    IN  IF ~wrapped
        THEN DewrapTranslations([h |-> h, unwrapped |-> <<>>, used |-> {}],
                                items, sig)
        ELSE IF ml.err # "" THEN Raise(ml.h, <<>>, ml.err)
        ELSE IF mg.err # "" THEN Raise(mg.h, <<>>, mg.err)
        ELSE DewrapTranslations([h |-> mg.h, unwrapped |-> unwrapped,
                                 used |-> Range(ls) \cup Range(gs)],
                                items, sig)

-----------------------------------------------------------------------------
(* remove_language_name.  The metadata of the IGT is a record lg of the   *)
(* language code and the language name, None where the IGT has none.       *)

NoLanguage == [code |-> None, name |-> None]

\* str.upper() and str.lower(), on the letters of ASCII
Upper(s) ==
    [i \in DOMAIN s |->
       IF s[i] \in LowerAZ
       THEN UpperSeq[CHOOSE j \in 1..Len(LowerSeq) : LowerSeq[j] = s[i]] ELSE s[i]]

Lower(s) ==
    [i \in DOMAIN s |->
       IF s[i] \in UpperAZ
       THEN LowerSeq[CHOOSE j \in 1..Len(UpperSeq) : UpperSeq[j] = s[i]] ELSE s[i]]

\* re.split(r'[- ]+', s)
RECURSIVE SplitDashSpace(_)
SplitDashSpace(s) ==
    LET n == LeadIn(s, {x \in Range(s) : x \notin {"-", " "}})
        rest == SubSeq(s, n + 1, Len(s))
    IN  IF n = Len(s) THEN <<s>>
        ELSE <<SubSeq(s, 1, n)>>
             \o SplitDashSpace(SubSeq(rest, LeadIn(rest, {"-", " "}) + 1, Len(rest)))

\* lgtoks: the code with its upper and lower case forms (a set in the code;
\* its members that differ have one length when the code has one part, so
\* that their order in the pattern cannot change a match), then the name,
\* the name in upper case, its abbreviation and its first three letters;
\* <<"IndexError">> when a word of the name is empty
LangTokens(lg) ==
    LET code == lg.code
        name == lg.name
        parts == Split(OrEmpty(code), ":")
        uppers == [i \in DOMAIN parts |-> Upper(parts[i])]
        codes == IF Truthy(code) /\ "?" \notin Range(code) /\ "*" \notin Range(code)
                 THEN Uniq(parts \o uppers
                           \o [i \in DOMAIN parts |-> Lower(parts[i])]
                           \o [i \in DOMAIN parts |-> Lower(uppers[i])])
                 ELSE <<>>
        named == Truthy(name) /\ "?" \notin Range(name)
        words == SplitDashSpace(name)
        abbrev == IF named /\ Range(name) \cap {"-", " "} # {}
                  THEN <<[i \in DOMAIN words |-> words[i][1]]>> ELSE <<>>
        first3 == IF named /\ Len(name) >= 3
                     /\ \A i \in 1..3 : name[i] \in WordChars
                  THEN <<Slice(name, 0, 3)>> ELSE <<>>
    IN  IF named /\ Range(name) \cap {"-", " "} # {}
           /\ \E i \in DOMAIN words : words[i] = <<>>
        THEN <<"IndexError">>
        ELSE codes \o (IF named THEN <<name, Upper(name)>> ELSE <<>>)
                   \o abbrev \o first3

\* (tok1|tok2|...), the tokens escaped
LangSig(lgtoks) == RGrp("g1", RAlt([i \in DOMAIN lgtoks |-> RLit(<<>> \o lgtoks[i])]))

\* start_lg_re without the brackets:  ^\s*(sig)
start_lg_re_bare(lgtoks) == RCat(<<RBol, RSp0, LangSig(lgtoks)>>)

\* ^\s*[(\[]?(sig)[)\]]?
start_lg_re(lgtoks) ==
    RCat(<<RBol, RSp0, ROpt(RSet({"(", "["})), LangSig(lgtoks),
           ROpt(RSet({")", "]"}))>>)

\* [(\[]?(sig)[)\]]?\s*$
end_lg_re(lgtoks) ==
    RCat(<<ROpt(RSet({"(", "["})), LangSig(lgtoks), ROpt(RSet({")", "]"})),
           RSp0, REol>>)

\* the item Item(id=item.id, text=m.group(0).strip(),
\* attributes=dict(item.attributes)) with the tag M+LN
LangMetaItem(item, m, text) ==
    [Item(item.id, None, item.attributes, Strip(Group0(m, text)))
       EXCEPT !.attributes.tag = <<"M", "+", "L", "N">>]

\* the loop of remove_language_name from place i of items on; the list
\* items grows while the loop goes over it
RECURSIVE remove_language_name_from(_, _, _, _, _)
remove_language_name_from(h, items, i, new_items, lgtoks) ==
    IF i > Len(items) THEN Ret(h, new_items)
    ELSE
    LET r == items[i]
        item == h[r]
        tags == get_tags(item)
        new1 == Append(new_items, r)
    IN  IF tags[1] = <<"M">>
        THEN remove_language_name_from(h, items, i + 1, new1, lgtoks)
        ELSE
        LET orig == item.text
            m1 == ReMatch(start_lg_re(lgtoks), orig)
            h1 == IF m1.ok THEN Append(h, LangMetaItem(item, m1, orig)) ELSE h
            new2 == IF m1.ok THEN Append(new1, Len(h1)) ELSE new1
            text1 == IF m1.ok THEN ReSub(start_lg_re(lgtoks), orig, whitespace)
                     ELSE orig
            m2 == ReSearch(end_lg_re(lgtoks), text1)
            h2 == IF m2.ok THEN Append(h1, LangMetaItem(item, m2, text1)) ELSE h1
            items2 == IF m2.ok THEN Append(items, Len(h2)) ELSE items
            text2 == IF m2.ok
                     THEN RStrip(ReSub(end_lg_re(lgtoks), text1, whitespace))
                     ELSE text1
            tag2 == IF <<"L", "N">> \in Range(tags) /\ text2 # orig
                    THEN Join(<<"+">>, RemoveFirst(tags, <<"L", "N">>))
                    ELSE item.attributes.tag
            h3 == [h2 EXCEPT ![r] = [item EXCEPT !.text = text2,
                                                 !.attributes.tag = tag2]]
        IN  remove_language_name_from(h3, items2, i + 1, new2, lgtoks)

remove_language_name(h, items, lg) ==
    LET lgtoks == LangTokens(lg)
    IN  IF lgtoks = <<"IndexError">> THEN Raise(h, items, "IndexError")
        ELSE IF lgtoks # <<>>
        THEN remove_language_name_from(h, items, 1, <<>>, lgtoks)
        ELSE Ret(h, items)

\* the last loop of normalize_items: the ids norm_id1, norm_id2, ...
renumber(h, items, norm_id) ==
    LET after[i \in 0..Len(items)] ==
            IF i = 0 THEN h
            ELSE [after[i - 1] EXCEPT ![items[i]].id = norm_id \o Str(i)]
    IN  Ret(after[Len(items)], items)

\* a line of a tier as the inputs of the model give it: tag, text and
\* reference attributes
Line(tag, text) ==
    [tag |-> tag, text |-> text, alignment |-> None, content |-> None,
     segmentation |-> None]

\* the item of line l at place i (1-based) of a tier whose item ids begin
\* with prefix
LineItem(prefix, i, l) ==
    [id |-> prefix \o Str(i), type |-> None, attributes |-> Attrs(l.tag, Str(i)),
     text |-> l.text, alignment |-> l.alignment, content |-> l.content,
     segmentation |-> l.segmentation]

\* the heap that holds the items of the lines, in order
LinesHeap(prefix, lines) ==
    <<>> \o [i \in DOMAIN lines |-> LineItem(prefix, i, lines[i])]

\* the tags normalize_items passes to shift_left
ShiftTags == {<<"L">>, <<"G">>, <<"L", "-", "G">>, <<"L", "-", "T">>,
              <<"G", "-", "T">>, <<"L", "-", "G", "-", "T">>}

-----------------------------------------------------------------------------
(* The inputs.  A run is one call: of normalize_items on a base tier, or   *)
(* of one operation on a list of items.                                     *)

\* the longest list of items a call of one operation is given
MaxItems == 3

\* the longest base tier drawn from TierLines (the tiers of Scenarios are
\* given as they are)
MaxTier == 2

\* the sequences of 1..n elements of S
SeqsUpTo(S, n) == UNION {[1..k -> S] : k \in 1..n}

\* a line with a reference attribute
RefLine(tag, text, kind, ref) ==
    [Line(tag, text) EXCEPT ![kind] = ref]

\* items for merge_items: with and without reference attributes, of single
\* and composite roles
MergeLines ==
    {RefLine(<<"L">>, <<"a">>, "alignment", <<"r", "1">>),
     RefLine(<<"G">>, <<"b">>, "content", <<"r", "2">>),
     RefLine(<<"L", "-", "G">>, <<"c">>, "segmentation", <<"r", "3">>),
     Line(<<"G">>, <<"d">>),
     Line(<<"L">>, <<"e">>),
     Line(<<"L", "-", "G">>, <<"f">>),
     Line(<<"T", "+", "A", "C">>, <<"g">>)}

\* items for dewrap_lines
WrapLines ==
    {Line(<<"L">>, <<"a">>), Line(<<"G">>, <<"b", "b">>), Line(<<"T">>, <<"c">>),
     Line(<<"T", "+", "L", "N">>, <<"d">>), Line(<<"T", "+", "A", "C">>, <<"e">>),
     Line(<<"M">>, <<"m">>)}

\* items for rejoin_translations:  a  |  b"  |  k: c  |  )  |  d (T+CR)  |  g (L)
TransLines ==
    {Line(<<"T">>, <<"a">>), Line(<<"T">>, <<"b", "u0022">>),
     Line(<<"T">>, <<"k", ":", " ", "c">>), Line(<<"T">>, <<")">>),
     Line(<<"T", "+", "C", "R">>, <<"d">>), Line(<<"L">>, <<"g">>)}

\* items for remove_citations:  a (b)  |  x   yyy  |  x  |  a ("b")
CiteLines ==
    {Line(<<"G">>, <<"a", " ", "(", "b", ")">>),
     Line(<<"L">>, <<"a", " ", "(", "b", ")">>),
     Line(<<"L">>, <<"x", " ", " ", " ", "y", "y", "y">>),
     Line(<<"G">>, <<"x", " ", " ", " ", "y", "y", "y">>),
     Line(<<"L">>, <<"x">>),
     Line(<<"L">>, <<"a", " ", "(", "u0022", "b", "u0022", ")">>),
     Line(<<"T">>, <<"a", " ", "(", "u0022", "b", "u0022", ")">>),
     Line(<<"L", "-", "G">>, <<"a", " ", "(", "u0022", "b", "u0022", ")">>),
     Line(<<"T", "+", "L", "N">>, <<"a", " ", "[", "b", "]">>)}

\* items for rejoin_continuations:
\*   the  |  dog ran (C)  |   b (C+AC)  |  c (L+LN)  |  d (G-T)  |  e (M)
ContLines ==
    {Line(<<"L">>, <<"t", "h", "e">>),
     Line(<<"C">>, <<"d", "o", "g", " ", "r", "a", "n">>),
     Line(<<"C", "+", "A", "C">>, <<" ", " ", "b">>),
     Line(<<"L", "+", "L", "N">>, <<"c", " ">>),
     Line(<<"G", "-", "T">>, <<"d">>),
     Line(<<"M">>, <<"e">>)}

\* the dog ran
TheDogRan == <<"t", "h", "e", " ", "d", "o", "g", " ", "r", "a", "n">>

\* lists for remove_citations, given whole:
\*   the dog ran (1999)  |  x   see b (1) (T+AC), then y (G)
CiteCases ==
    {<<Line(<<"L">>, TheDogRan \o <<" ", "(", "1", "9", "9", "9", ")">>)>>,
     <<Line(<<"T", "+", "A", "C">>, <<"x", " ", " ", " ", " ", "s", "e", "e", " ",
                                      "b", " ", "(", "1", ")", " ">>),
       Line(<<"G">>, <<"y">>)>>}

\* dog.NOM run-PST
DogNomRunPst == <<"d", "o", "g", ".", "N", "O", "M", " ", "r", "u", "n", "-", "P", "S",
                  "T">>

\* items for remove_example_numbers:
\*   1. the dog ran  |  1. dog.NOM run-PST  |  1a. dog.NOM run-PST  |
\*   (blank and text at the offsets of a number)  |  2. y (L-G)  |  zzzz (M)
NumberLines ==
    {Line(<<"L">>, <<"1", ".", " ">> \o TheDogRan),
     Line(<<"G">>, <<"1", ".", " ">> \o DogNomRunPst),
     Line(<<"G">>, <<"1", "a", ".", " ">> \o DogNomRunPst),
     Line(<<"T">>, <<" ", " ", " ", "x">>),
     Line(<<"L", "-", "G">>, <<"2", ".", " ", "y">>),
     Line(<<"G", "-", "T">>, <<"a", "b", " ", "z">>),
     Line(<<"M">>, <<"z", "z", "z", "z">>)}

\* lines for the base tiers of normalize_items
TierLines ==
    {Line(<<"L">>, <<"1", ".", " ", "a", "-", " ", "b", " ", "(", "c", ")">>),
     Line(<<"G">>, <<"1", ".", " ", "x", ".", " ", "y">>),
     Line(<<"T">>, <<"'", "x", "'", " ", "l", "i", "t", ":", " ", "'", "y", "'">>),
     Line(<<"T", "+", "L", "N">>, <<"E", "n", "g", " ", "a", "u0022">>),
     Line(<<"T">>, <<"*", "b", " ", "(", "c", ")">>),
     Line(<<"C">>, <<" ", "d">>),
     Line(<<"B">>, <<" ">>),
     Line(<<"L", "-", "G">>, <<" ", "e", " ", "[", "1", "]">>)}

\* the tier  1. Juan corrió (1999) | 1. Juan run-PAST | "He ran." (Smith)
JuanTier ==
    <<Line(<<"L">>, <<"1", ".", " ", "J", "u", "a", "n", " ", "c", "o", "r", "r",
                     "i", "u00f3", " ", "(", "1", "9", "9", "9", ")">>),
      Line(<<"G">>, <<"1", ".", " ", "J", "u", "a", "n", " ", "r", "u", "n", "-",
                     "P", "A", "S", "T">>),
      Line(<<"T">>, <<"u0022", "H", "e", " ", "r", "a", "n", ".", "u0022", " ",
                     "(", "S", "m", "i", "t", "h", ")">>)>>

\* base tiers given whole
Scenarios ==
    { JuanTier,
      \* wrapped translations after a language-name line
      <<Line(<<"T", "+", "L", "N">>, <<"a", "u0022">>),
        Line(<<"T">>, <<"b", "u0022">>), Line(<<"T">>, <<"c">>)>>,
      \* wrapped source and gloss lines, with reference attributes
      <<RefLine(<<"L">>, <<"a">>, "content", <<"r", "1">>),
        Line(<<"G">>, <<"b", "b">>),
        RefLine(<<"L">>, <<"c">>, "alignment", <<"r", "3">>),
        Line(<<"G">>, <<"d">>),
        Line(<<"T">>, <<"u0022", "e">>), Line(<<"T">>, <<"f", "u0022">>)>>,
      \* an example number on aligned lines, and a continuation
      <<Line(<<"L">>, <<"(", "1", ")", " ", "a", "-", " ", "s">>),
        Line(<<"G">>, <<" ", " ", " ", " ", "x", "-", "P", "L">>),
        RefLine(<<"T">>, <<" ", " ", " ", " ", "'", "y", "'">>, "segmentation",
                <<"r", "2">>),
        Line(<<"C">>, <<" ", "z", " ", "(", "S", " ", "9", ")">>)>>,
      \* a translation in two lines, one with a segmentation and one with
      \* an alignment
      <<RefLine(<<"T">>, <<"u0022", "e">>, "segmentation", <<"r", "1">>),
        RefLine(<<"T">>, <<"f", "u0022">>, "alignment", <<"r", "2">>)>> }

\* the language metadata of the IGT:  none, or the code eng and the name
\* English
Languages ==
    {NoLanguage,
     [code |-> <<"e", "n", "g">>, name |-> <<"E", "n", "g", "l", "i", "s", "h">>]}

\* the language metadata of the operations called alone: the name English,
\* no code
NamedEnglish == [code |-> None, name |-> <<"E", "n", "g", "l", "i", "s", "h">>]

\* items for remove_language_name:
\*   English a  |  x (Eng) (G+LN)  |  english b  |  Eng (M)  |
\*   ENGLISH (T+LN)  |  [Eng] c Eng
LangLines ==
    {Line(<<"L">>, <<"E", "n", "g", "l", "i", "s", "h", " ", "a">>),
     Line(<<"G", "+", "L", "N">>, <<"x", " ", "(", "E", "n", "g", ")">>),
     Line(<<"T">>, <<"e", "n", "g", "l", "i", "s", "h", " ", "b">>),
     Line(<<"M">>, <<"E", "n", "g">>),
     Line(<<"T", "+", "L", "N">>, <<"E", "N", "G", "L", "I", "S", "H">>),
     Line(<<"L">>, <<"[", "E", "n", "g", "]", " ", "c", " ", "E", "n", "g">>)}

Calls ==
    {[call |-> "normalize_items", lines |-> t, lg |-> l] :
        t \in Scenarios \cup SeqsUpTo(TierLines, MaxTier), l \in Languages}
    \cup {[call |-> "merge_items", lines |-> t, lg |-> NoLanguage] :
            t \in SeqsUpTo(MergeLines, MaxItems)}
    \cup {[call |-> "dewrap_lines", lines |-> t, lg |-> NoLanguage] :
            t \in SeqsUpTo(WrapLines, MaxItems)}
    \cup {[call |-> "rejoin_translations", lines |-> t, lg |-> NoLanguage] :
            t \in SeqsUpTo(TransLines, MaxItems)}
    \cup {[call |-> "remove_citations", lines |-> t, lg |-> NoLanguage] :
            t \in CiteCases \cup SeqsUpTo(CiteLines, MaxItems)}
    \cup {[call |-> "remove_example_numbers", lines |-> t, lg |-> NoLanguage] :
            t \in SeqsUpTo(NumberLines, MaxItems)}

\* items for remove_blank_items: a text, texts of blanks, no text
BlankLines ==
    {Line(<<"L">>, <<"a">>), Line(<<"G">>, <<" ">>), Line(<<"T">>, <<>>),
     Line(<<"M">>, None), Line(<<"B">>, <<" ", "\t">>),
     Line(<<"T">>, <<" ", "x", " ">>)}

\* items for extract_judgment:
\*   *a  |   ?? b c  |  ?a/b  |  *a (M)  |  *a (T+CR)  |  a
JudgeLines ==
    {Line(<<"L">>, <<"*", "a">>),
     Line(<<"T">>, <<" ", "?", "?", " ", "b", " ", "c">>),
     Line(<<"T">>, <<"?", "a", "/", "b">>),
     Line(<<"M">>, <<"*", "a">>),
     Line(<<"T", "+", "C", "R">>, <<"*", "a">>),
     Line(<<"G">>, <<"a">>)}

\* items for shift_left:
\*   '  a' (L)  |  '    b' (G)  |  ' c ' (M)  |  ' d' (T)  |  ' ' (B)  |
\*   '   e f' (L-G)
ShiftLines ==
    {Line(<<"L">>, <<" ", " ", "a">>),
     Line(<<"G">>, <<" ", " ", " ", " ", "b">>),
     Line(<<"M">>, <<" ", "c", " ">>),
     Line(<<"T">>, <<" ", "d">>),
     Line(<<"B">>, <<" ">>),
     Line(<<"L", "-", "G">>, <<" ", " ", " ", "e", " ", "f">>)}

\* items for separate_secondary_translations:
\*   a (L+DB)  |  b (G)  |  'x' lit: 'y' (T)  |  'x' lit: 'y' (T+CR)  |
\*   c: d (M)  |  e (L-T+DB)
SecondaryLines ==
    {Line(<<"L", "+", "D", "B">>, <<"a">>),
     Line(<<"G">>, <<"b">>),
     Line(<<"T">>, <<"'", "x", "'", " ", "l", "i", "t", ":", " ", "'", "y", "'">>),
     Line(<<"T", "+", "C", "R">>,
          <<"'", "x", "'", " ", "l", "i", "t", ":", " ", "'", "y", "'">>),
     Line(<<"M">>, <<"c", ":", " ", "d">>),
     Line(<<"L", "-", "T", "+", "D", "B">>, <<"e">>)}

\* T items with secondary tags for remove_citations:
\*   a (b) as T+CN+AC, T+LN+CN, T+CN+EX, T+EX and T+AC+LN  |  c (T+AC)
CiteTagLines ==
    {Line(<<"T", "+", "C", "N", "+", "A", "C">>, <<"a", " ", "(", "b", ")">>),
     Line(<<"T", "+", "L", "N", "+", "C", "N">>, <<"a", " ", "(", "b", ")">>),
     Line(<<"T", "+", "C", "N", "+", "E", "X">>, <<"a", " ", "(", "b", ")">>),
     Line(<<"T", "+", "E", "X">>, <<"a", " ", "(", "b", ")">>),
     Line(<<"T", "+", "A", "C", "+", "L", "N">>, <<"a", " ", "(", "b", ")">>),
     Line(<<"T", "+", "A", "C">>, <<"c">>)}

\* the calls of the operations that work on one list and are called alone
StageCalls ==
    {[call |-> "remove_blank_items", lines |-> t, lg |-> NoLanguage] :
        t \in SeqsUpTo(BlankLines, MaxItems)}
    \cup {[call |-> "rejoin_continuations", lines |-> t, lg |-> NoLanguage] :
            t \in SeqsUpTo(ContLines, MaxItems)}
    \cup {[call |-> "remove_language_name", lines |-> t, lg |-> NamedEnglish] :
            t \in SeqsUpTo(LangLines, MaxItems)}
    \cup {[call |-> "extract_judgment", lines |-> t, lg |-> NoLanguage] :
            t \in SeqsUpTo(JudgeLines, MaxItems)}
    \cup {[call |-> "shift_left", lines |-> t, lg |-> NoLanguage] :
            t \in SeqsUpTo(ShiftLines, MaxItems)}
    \cup {[call |-> "remove_citations", lines |-> t, lg |-> NoLanguage] :
            t \in SeqsUpTo(CiteTagLines, MaxItems)}
    \cup {[call |-> "separate_secondary_translations", lines |-> t,
            lg |-> NoLanguage] : t \in SeqsUpTo(SecondaryLines, MaxItems)}

-----------------------------------------------------------------------------
(* The corpus.  An IGT is a record of its language metadata and its tiers,  *)
(* a tier a record of its id, type, state attribute, alignment and items    *)
(* (references into the heap).                                               *)

\* the ids add_normalized_tier tries, in order
PresetIds ==
    <<<<"n">>, <<"o", "n">>,
      <<"n", "o", "r", "m", "a", "l", "i", "z", "e", "d">>,
      <<"o", "d", "i", "n", "-", "n", "o", "r", "m", "a", "l", "i", "z", "e", "d">>>>

\* igt.get(n_id) is not None: the IGT has a tier of that id
HasTier(igt, id) == \E t \in DOMAIN igt.tiers : igt.tiers[t].id = id

\* FreeId with the presets tried from the last to the first
FreeIdFromLast(igt) ==
    LET free == {i \in DOMAIN PresetIds : ~HasTier(igt, PresetIds[i])}
    IN  IF free = {} THEN None
        ELSE PresetIds[CHOOSE i \in free : \A j \in free : i >= j]

\* norm_id of add_normalized_tier: the first preset id no tier of the IGT
\* has, None if there is none
FreeId(igt) ==
    LET free == {i \in DOMAIN PresetIds : ~HasTier(igt, PresetIds[i])}
    IN  IF free = {} THEN None
        ELSE PresetIds[CHOOSE i \in free : \A j \in free : i <= j]

\* FoundTiers with a raw tier taken as base_tier whatever was found before
FoundTiersRawOverrides(igt) ==
    LET found[t \in 0..Len(igt.tiers)] ==
            IF t = 0 THEN [base_tier |-> 0, norm_tier |-> 0]
            ELSE LET tier == igt.tiers[t]
                     so_far == found[t - 1]
                 IN  IF tier.type # "odin" THEN so_far
                     ELSE IF tier.state = "raw"
                     THEN [so_far EXCEPT !.base_tier = t]
                     ELSE IF tier.state = "cleaned"
                     THEN [so_far EXCEPT !.base_tier = t]
                     ELSE IF tier.state = "normalized"
                     THEN [so_far EXCEPT !.norm_tier = t]
                     ELSE so_far
    IN  found[Len(igt.tiers)]

\* base_tier and norm_tier after the loop of normalize_corpus over the tiers
\* of an IGT, as places in igt.tiers (0 for None)
FoundTiers(igt) ==
    LET found[t \in 0..Len(igt.tiers)] ==
            IF t = 0 THEN [base_tier |-> 0, norm_tier |-> 0]
            ELSE LET tier == igt.tiers[t]
                     so_far == found[t - 1]
                 IN  IF tier.type # "odin" THEN so_far
                     ELSE IF so_far.base_tier = 0 /\ tier.state = "raw"
                     THEN [so_far EXCEPT !.base_tier = t]
                     ELSE IF tier.state = "cleaned"
                     THEN [so_far EXCEPT !.base_tier = t]
                     ELSE IF tier.state = "normalized"
                     THEN [so_far EXCEPT !.norm_tier = t]
                     ELSE so_far
    IN  found[Len(igt.tiers)]

\* Tier(id=norm_id, type='odin', alignment=base_tier.id,
\*      attributes={'state': 'normalized'}, items=norm_items)
NormalizedTier(id, base_tier, norm_items) ==
    [id |-> id, type |-> "odin", state |-> "normalized", alignment |-> base_tier.id,
     items |-> norm_items]

\* a tier as the inputs give it: its lines in place of its items
TierOf(id, type, state, lines) ==
    [id |-> id, type |-> type, state |-> state, lines |-> lines]

\* the most IGTs a corpus has
MaxIgts == 2

\* a language name that ends with a space
NamedWithSpace == [code |-> None, name |-> <<"a", " ">>]

\* the IGTs of the corpora: a raw tier; a raw and a cleaned tier; a cleaned
\* and a normalized tier; no odin tier; the four preset ids taken; the id n
\* taken and a raw tier after the cleaned one; a language name on which
\* remove_language_name raises IndexError
IgtCases ==
    {[lg |-> NoLanguage,
      tiers |-> <<TierOf(<<"r">>, "odin", "raw",
                         <<Line(<<"L">>, <<"a", "-", " ", "b">>),
                           Line(<<"T">>, <<"u0022", "c", "u0022">>)>>)>>],
     [lg |-> NamedEnglish,
      tiers |-> <<TierOf(<<"r">>, "odin", "raw", <<Line(<<"L">>, <<"x">>)>>),
                  TierOf(<<"c">>, "odin", "cleaned",
                         <<Line(<<"L">>, <<"a", " ", "(", "1", ")">>),
                           Line(<<"G">>, <<"E", "n", "g", " ", "y">>)>>)>>],
     [lg |-> NoLanguage,
      tiers |-> <<TierOf(<<"c">>, "odin", "cleaned", <<Line(<<"L">>, <<"a", " ">>)>>),
                  TierOf(<<"n">>, "odin", "normalized",
                         <<Line(<<"L">>, <<"a">>)>>)>>],
     [lg |-> NoLanguage,
      tiers |-> <<TierOf(<<"p">>, "phrases", "raw", <<Line(<<"L">>, <<"a", " ">>)>>)>>],
     [lg |-> NoLanguage,
      tiers |-> <<TierOf(PresetIds[1], "odin", "cleaned",
                         <<Line(<<"L">>, <<"a", " ">>)>>),
                  TierOf(PresetIds[2], "words", None, <<>>),
                  TierOf(PresetIds[3], "words", None, <<>>),
                  TierOf(PresetIds[4], "words", None, <<>>)>>],
     [lg |-> NoLanguage,
      tiers |-> <<TierOf(PresetIds[1], "words", None, <<>>),
                  TierOf(<<"c">>, "odin", "cleaned",
                         <<Line(<<"T">>, <<"*", "b">>)>>),
                  TierOf(<<"r">>, "odin", "raw", <<Line(<<"L">>, <<"x">>)>>)>>],
     [lg |-> NamedWithSpace,
      tiers |-> <<TierOf(<<"c">>, "odin", "cleaned",
                         <<Line(<<"L">>, <<"a">>)>>)>>]}

\* the tiers of an IGT given as lines, their items being put on the heap h
LoadTiers(h, tiers) ==
    LET after[t \in 0..Len(tiers)] ==
            IF t = 0 THEN [h |-> h, tiers |-> <<>>]
            ELSE LET so_far == after[t - 1]
                     tier == tiers[t]
                 IN  [h |-> so_far.h \o LinesHeap(tier.id, tier.lines),
                      tiers |->
                          Append(so_far.tiers,
                                 [id |-> tier.id, type |-> tier.type,
                                  state |-> tier.state, alignment |-> None,
                                  items |-> <<>> \o [i \in DOMAIN tier.lines |->
                                                        Len(so_far.h) + i]])]
    IN  after[Len(tiers)]

\* the corpus of the IGTs given, and the heap of the items of their tiers
LoadCorpus(igts) ==
    LET after[k \in 0..Len(igts)] ==
            IF k = 0 THEN [h |-> <<>>, xc |-> <<>>]
            ELSE LET loaded == LoadTiers(after[k - 1].h, igts[k].tiers)
                 IN  [h |-> loaded.h,
                      xc |-> Append(after[k - 1].xc,
                                    [lg |-> igts[k].lg, tiers |-> loaded.tiers])]
    IN  after[Len(igts)]

-----------------------------------------------------------------------------
(* The state machine.                                                       *)

VARIABLES
    heap,    \* the item objects there are
    base,    \* the items of the base tier (references into heap)
    items,   \* the list the call works on, then the list it returned
    lg,      \* the language metadata of the IGT of the base tier
    call,    \* the operation called
    pc,      \* the operation to run next: "done" after the call returned,
             \* "raised" after it raised an exception
    err,     \* the exception raised, "" if none
    last,    \* the operation that ran last
    pre,     \* the heap and the list before the operation that ran last
    xc,      \* the corpus normalize_corpus is called on (no IGT otherwise)
    at,      \* the place in xc of the IGT normalize_corpus is at
    pass     \* 2 when normalize_items runs on what it returned, else 1

vars == <<heap, base, items, lg, call, pc, err, last, pre, xc, at, pass>>

\* the id the normalized tier is given: the one add_normalized_tier has
\* found, n when normalize_items is called alone
norm_id == IF call = "normalize_corpus" THEN FreeId(xc[at]) ELSE PresetIds[1]

\* the state at the call c
Start(c) ==
    /\ heap = LinesHeap(<<"c">>, c.lines)
    /\ base = <<>> \o [i \in DOMAIN c.lines |-> i]
    /\ items = <<>> \o [i \in DOMAIN c.lines |-> i]
    /\ lg = c.lg
    /\ call = c.call
    /\ pc = IF c.call = "normalize_items" THEN "copy_items" ELSE c.call
    /\ err = ""
    /\ last = ""
    /\ pre = [heap |-> <<>>, items |-> <<>>]
    /\ xc = <<>>
    /\ at = 0
    /\ pass = 1

Init == \E c \in Calls : Start(c)

\* one operation has run with result r; normalize_items goes on with next
Step(op, r, next) ==
    /\ heap' = r.h
    /\ items' = r.items
    /\ err' = r.err
    /\ pc' = IF r.err # "" THEN "raised"
             ELSE IF call \in {"normalize_items", "normalize_corpus"} THEN next
             ELSE "done"
    /\ last' = op
    /\ pre' = [heap |-> heap, items |-> items]
    /\ UNCHANGED <<base, lg, call, xc, at, pass>>

CopyItems ==
    /\ pc = "copy_items"
    /\ Step("copy_items", copy_items(heap, items), "remove_blank_items")

RemoveBlankItems ==
    /\ pc \in {"remove_blank_items", "remove_blank_items_again"}
    /\ Step("remove_blank_items", remove_blank_items(heap, items),
            IF pc = "remove_blank_items" THEN "rejoin_continuations"
            ELSE "item_loop")

RejoinContinuations ==
    /\ pc = "rejoin_continuations"
    /\ Step("rejoin_continuations", rejoin_continuations(heap, items),
            "rejoin_translations")

RejoinTranslations ==
    /\ pc = "rejoin_translations"
    /\ Step("rejoin_translations", rejoin_translations(heap, items),
            "remove_citations")

RemoveCitations ==
    /\ pc = "remove_citations"
    /\ Step("remove_citations", remove_citations(heap, items),
            "remove_language_name")

RemoveLanguageName ==
    /\ pc = "remove_language_name"
    /\ Step("remove_language_name", remove_language_name(heap, items, lg),
            "remove_example_numbers")

RemoveExampleNumbers ==
    /\ pc = "remove_example_numbers"
    /\ Step("remove_example_numbers", remove_example_numbers(heap, items),
            "remove_blank_items_again")

\* the first for loop of normalize_items
ItemLoop ==
    /\ pc = "item_loop"
    /\ Step("item_loop", Ret(ForEach(heap, items, NormalizeItem), items),
            "separate_secondary_translations")

SeparateSecondaryTranslations ==
    /\ pc = "separate_secondary_translations"
    /\ Step("separate_secondary_translations",
            separate_secondary_translations(heap, items), "dewrap_lines")

DewrapLines ==
    /\ pc = "dewrap_lines"
    /\ Step("dewrap_lines", dewrap_lines(heap, items), "unquote_translations")

UnquoteTranslations ==
    /\ pc = "unquote_translations"
    /\ Step("unquote_translations", unquote_translations(heap, items),
            "shift_left")

ShiftLeft ==
    /\ pc = "shift_left"
    /\ Step("shift_left", shift_left(heap, items, ShiftTags), "renumber")

\* the last for loop of normalize_items, and its return
Renumber ==
    /\ pc = "renumber"
    /\ Step("renumber", renumber(heap, items, norm_id),
            IF call = "normalize_corpus" THEN "append_tier" ELSE "done")

MergeItems ==
    /\ pc = "merge_items"
    /\ Step("merge_items", merge_items(heap, items), "done")

Next ==
    \/ CopyItems
    \/ RemoveBlankItems
    \/ RejoinContinuations
    \/ RejoinTranslations
    \/ RemoveCitations
    \/ RemoveLanguageName
    \/ RemoveExampleNumbers
    \/ ItemLoop
    \/ SeparateSecondaryTranslations
    \/ DewrapLines
    \/ UnquoteTranslations
    \/ ShiftLeft
    \/ Renumber
    \/ MergeItems

Spec == Init /\ [][Next]_vars

\* extract_judgment called on every item of a list
ExtractJudgment ==
    /\ pc = "extract_judgment"
    /\ Step("extract_judgment", Ret(ForEach(heap, items, extract_judgment), items),
            "done")

\* the operations on one list, each called alone
StageInit == \E c \in StageCalls : Start(c)

StageNext ==
    \/ RemoveBlankItems
    \/ RejoinContinuations
    \/ RemoveLanguageName
    \/ ExtractJudgment
    \/ ShiftLeft
    \/ SeparateSecondaryTranslations
    \/ RemoveCitations

StageSpec == StageInit /\ [][StageNext]_vars

\* the operations of normalize_items, in the order of their calls
Pipeline ==
    \/ CopyItems
    \/ RemoveBlankItems
    \/ RejoinContinuations
    \/ RejoinTranslations
    \/ RemoveCitations
    \/ RemoveLanguageName
    \/ RemoveExampleNumbers
    \/ ItemLoop
    \/ SeparateSecondaryTranslations
    \/ DewrapLines
    \/ UnquoteTranslations
    \/ ShiftLeft
    \/ Renumber

\* normalize_corpus is called on a corpus of up to MaxIgts IGTs
CorpusInit ==
    \E igts \in SeqsUpTo(IgtCases, MaxIgts) :
        /\ heap = LoadCorpus(igts).h
        /\ xc = LoadCorpus(igts).xc
        /\ at = 1
        /\ base = <<>>
        /\ items = <<>>
        /\ lg = NoLanguage
        /\ call = "normalize_corpus"
        /\ pc = "normalize_corpus"
        /\ err = ""
        /\ last = ""
        /\ pre = [heap |-> <<>>, items |-> <<>>]
        /\ pass = 1

\* normalize_corpus goes on to the next IGT, without a change: the IGT has no
\* base tier, it has a normalized tier, or no preset id is free
SkipIgt ==
    /\ pc = "normalize_corpus"
    /\ at <= Len(xc)
    /\ \/ FoundTiers(xc[at]).base_tier = 0
       \/ FoundTiers(xc[at]).norm_tier # 0
       \/ FreeId(xc[at]) = None
    /\ at' = at + 1
    /\ last' = "skip_igt"
    /\ UNCHANGED <<heap, base, items, lg, call, pc, err, pre, xc, pass>>

\* add_normalized_tier calls normalize_items on the base tier
AddNormalizedTier ==
    /\ pc = "normalize_corpus"
    /\ at <= Len(xc)
    /\ FoundTiers(xc[at]).base_tier # 0
    /\ FoundTiers(xc[at]).norm_tier = 0
    /\ FreeId(xc[at]) # None
    /\ base' = xc[at].tiers[FoundTiers(xc[at]).base_tier].items
    /\ items' = base'
    /\ lg' = xc[at].lg
    /\ pc' = "copy_items"
    /\ last' = "add_normalized_tier"
    /\ pre' = [heap |-> heap, items |-> items]
    /\ UNCHANGED <<heap, call, err, xc, at, pass>>

\* normalize_items has returned: add_normalized_tier appends the tier, and
\* normalize_corpus goes on to the next IGT
AppendTier ==
    /\ pc = "append_tier"
    /\ xc' = [xc EXCEPT ![at].tiers =
                 Append(@, NormalizedTier(
                               norm_id, xc[at].tiers[FoundTiers(xc[at]).base_tier],
                               items))]
    /\ at' = at + 1
    /\ pc' = "normalize_corpus"
    /\ last' = "append_tier"
    /\ pre' = [heap |-> heap, items |-> items]
    /\ UNCHANGED <<heap, base, items, lg, call, err, pass>>

\* normalize_corpus has gone through the IGTs and returns
NormalizeCorpusReturn ==
    /\ pc = "normalize_corpus"
    /\ at > Len(xc)
    /\ pc' = "done"
    /\ last' = "normalize_corpus"
    /\ UNCHANGED <<heap, base, items, lg, call, err, pre, xc, at, pass>>

CorpusNext ==
    \/ SkipIgt
    \/ AddNormalizedTier
    \/ Pipeline
    \/ AppendTier
    \/ NormalizeCorpusReturn

CorpusSpec == CorpusInit /\ [][CorpusNext]_vars

\* normalize_corpus is called again on the corpus: any number of times after
\* it has returned, once after it has raised (it raises again, and each run
\* makes new copies)
NormalizeCorpusAgain ==
    /\ call = "normalize_corpus"
    /\ pc = "done" \/ (pc = "raised" /\ pass = 1)
    /\ pass' = 2
    /\ at' = 1
    /\ pc' = "normalize_corpus"
    /\ err' = ""
    /\ last' = "normalize_corpus_again"
    /\ UNCHANGED <<heap, base, items, lg, call, pre, xc>>

\* normalize_corpus called on a corpus any number of times
RerunNext == CorpusNext \/ NormalizeCorpusAgain

RerunSpec == CorpusInit /\ [][RerunNext]_vars

\* normalize_items is called on the items it has returned
NormalizeAgain ==
    /\ call = "normalize_items"
    /\ pc = "done"
    /\ pass = 1
    /\ pass' = 2
    /\ base' = items
    /\ pc' = "copy_items"
    /\ last' = "normalize_again"
    /\ pre' = [heap |-> heap, items |-> items]
    /\ UNCHANGED <<heap, items, lg, call, err, xc, at>>

\* normalize_items called on a base tier and then on what it returned
TwiceInit ==
    \E c \in {x \in Calls : x.call = "normalize_items"} : Start(c)

TwiceNext == Pipeline \/ NormalizeAgain

TwiceSpec == TwiceInit /\ [][TwiceNext]_vars

-----------------------------------------------------------------------------
(* The properties.  After an operation, pre holds the heap and the list it *)
(* was given, heap and items what it left.                                  *)

RefKinds == {"alignment", "content", "segmentation"}

\* the reference attributes of kind k among the items its
HasRef(its, k) == \E i \in DOMAIN its : Truthy(its[i][k])

\* the kinds of reference attribute an item has
KindsOf(item) == {k \in RefKinds : Truthy(item[k])}

\* how often x occurs in the sequence s
Count(s, x) == Cardinality({i \in DOMAIN s : s[i] = x})

\* the line numbers of the items of a list, one after the other
LineNumbers(h, refs) ==
    LET upto[i \in 0..Len(refs)] ==
            IF i = 0 THEN <<>>
            ELSE upto[i - 1] \o Split(h[refs[i]].attributes.line, " ")
    IN  upto[Len(refs)]

\* C1, as stated: merge_items raises an error or leaves the base item with
\* at most one of alignment, content and segmentation
C1_AtMostOneReferenceKind ==
    last = "merge_items" =>
        \/ err # ""
        \/ Cardinality(KindsOf(heap[items[1]])) <= 1

\* C1, amended: merge_items raises ValueError exactly when the items given
\* have a segmentation together with an alignment or a content, and otherwise
\* leaves the base item without segmentation beside alignment or content
\* (alignment and content may both be set)
C1_SegmentationStaysApart ==
    last = "merge_items" =>
        LET ins == Deref(pre.heap, pre.items)
            b == heap[items[1]]
        IN  /\ err = "ValueError" <=>
                   /\ HasRef(ins, "segmentation")
                   /\ HasRef(ins, "alignment") \/ HasRef(ins, "content")
            /\ err = "" => /\ "segmentation" \in KindsOf(b) => KindsOf(b) = {"segmentation"}
                           /\ \A k \in RefKinds : k \in KindsOf(b) <=> HasRef(ins, k)

\* C1: a merge of an item with an alignment and one with a content has
\* returned
C1_MergedAlignmentAndContent ==
    /\ last = "merge_items"
    /\ err = ""
    /\ KindsOf(heap[items[1]]) = {"alignment", "content"}
    /\ \A i \in DOMAIN pre.items : Cardinality(KindsOf(pre.heap[pre.items[i]])) <= 1

\* normalize_items has returned
Normalized == call = "normalize_items" /\ pc = "done"

\* the ids of the items of the base tier
BaseIds == {heap[base[i]].id : i \in DOMAIN base}

C3_DewrapPassesEachItemOnce ==
    (last = "dewrap_lines" /\ err = "") =>
        /\ \A i, j \in DOMAIN items : items[i] = items[j] => i = j
        /\ LET given == LineNumbers(pre.heap, pre.items)
               returned == LineNumbers(heap, items)
           IN  \A x \in Range(given) \cup Range(returned) :
                   Count(returned, x) = Count(given, x)

\* the tags and texts of the items of a list
TagsAndTexts(h, refs) ==
    [i \in DOMAIN refs |-> [tag |-> h[refs[i]].attributes.tag,
                            text |-> h[refs[i]].text]]

\* the base tier is JuanTier
BaseIsJuanTier ==
    TagsAndTexts(heap, base) =
        [i \in DOMAIN JuanTier |-> [tag |-> JuanTier[i].tag, text |-> JuanTier[i].text]]

\* the texts of the items returned whose tag is tag
TextsOf(tag) ==
    {heap[items[i]].text : i \in {j \in DOMAIN items :
                                    heap[items[j]].attributes.tag = tag}}

\* C4, as stated: from JuanTier normalize_items returns the source and gloss
\* lines without example number and citation, the citations as M items and
\* the translation He ran.
C4_NumberAndCitationStripped ==
    (Normalized /\ BaseIsJuanTier) =>
        /\ TextsOf(<<"L">>) = {<<"J", "u", "a", "n", " ", "c", "o", "r", "r", "i",
                                 "u00f3">>}
        /\ TextsOf(<<"G">>) = {<<"J", "u", "a", "n", " ", "r", "u", "n", "-", "P",
                                 "A", "S", "T">>}
        /\ TextsOf(<<"T">>) = {<<"H", "e", " ", "r", "a", "n", ".">>}
        /\ TextsOf(<<"M">>) = {<<"(", "1", "9", "9", "9", ")">>,
                               <<"(", "S", "m", "i", "t", "h", ")">>}

\* C4, amended: from JuanTier normalize_items returns four items: the source
\* line as it was, 1. Juan corrió (1999) (the gloss line has text under the
\* citation, the translation has text under the number); the gloss line with
\* its number kept and joined to the next word, 1.Juan run-PAST; the
\* translation He ran. without quotes and citation; and the translation's
\* citation (Smith) as an M item
C4_JuanTierNormalized ==
    (Normalized /\ BaseIsJuanTier) =>
        TagsAndTexts(heap, items) =
            <<[tag |-> <<"L">>, text |-> JuanTier[1].text],
              [tag |-> <<"G">>,
               text |-> <<"1", ".", "J", "u", "a", "n", " ", "r", "u", "n", "-",
                          "P", "A", "S", "T">>],
              [tag |-> <<"T">>, text |-> <<"H", "e", " ", "r", "a", "n", ".">>],
              [tag |-> <<"M">>, text |-> <<"(", "S", "m", "i", "t", "h", ")">>]>>

\* C4: normalize_items has returned the items of JuanTier, the translation's
\* citation among them
C4_JuanTierDone ==
    /\ Normalized
    /\ BaseIsJuanTier
    /\ last = "renumber"
    /\ <<"(", "S", "m", "i", "t", "h", ")">> \in TextsOf(<<"M">>)

\* the roles of the primary tags of the items its
RolesOf(its) == UNION {Range(Split(get_tags(its[i])[1], "-")) : i \in DOMAIN its}

\* C5, as stated: after merge_items the base item's primary tag is the sorted
\* union, without duplicates, of the roles of the items' primary tags, joined
\* by "-" with G-L written L-G, and its secondary tags are the sorted union of
\* the items' secondary tags
C5_MergedTagIsUnionOfRoles ==
    (last = "merge_items" /\ err = "") =>
        LET ins == Deref(pre.heap, pre.items)
            tags == get_tags(heap[items[1]])
        IN  /\ tags[1] = Replace(Join(<<"-">>, Sorted(RolesOf(ins))),
                                 <<"G", "-", "L">>, <<"L", "-", "G">>)
            /\ Tail(tags) = Sorted(UNION {Range(Tail(get_tags(ins[i]))) :
                                            i \in DOMAIN ins})

\* a tag of the role tag grammar: a primary tag, then secondary tags
ValidTag(tag) ==
    LET tags == Split(OrEmpty(tag), "+")
    IN  /\ tags[1] \in PRITAGS
        /\ Range(Tail(tags)) \subseteq SECTAGS

C7Merges(h, prev, cur) ==
    /\ IsPlainT(cur)
    /\ IsPlainT(h[prev.first])
    /\ ~ReMatch(marked_re, cur.text).ok
    /\ ~ReSearch(end_match_re, prev.text).ok

\* the output so far after item r
C7Next(h, out, r) ==
    IF out # <<>> /\ C7Merges(h, out[Len(out)], h[r])
    THEN [out EXCEPT ![Len(out)].text = @ \o <<" ">> \o LStrip(h[r].text)]
    ELSE Append(out, [first |-> r, text |-> h[r].text])

\* the output of rejoin_translations as C7 describes it
C7Groups(h, refs) ==
    LET groups[i \in 0..Len(refs)] ==
            IF i = 0 THEN <<>> ELSE C7Next(h, groups[i - 1], refs[i])
    IN  groups[Len(refs)]

TextAt(j, k) ==
    IF j < k THEN heap[pre.items[j]].text ELSE pre.heap[pre.items[j]].text

\* the item of primary tag t2 nearest to item k of the list given, looked for
\* after k first and then before k; 0 if there is none
NearestOfRole(k, t2) ==
    LET after == {j \in (k + 1)..Len(pre.items) :
                    get_tags(pre.heap[pre.items[j]])[1] = t2}
        before == {j \in 1..(k - 1) : get_tags(pre.heap[pre.items[j]])[1] = t2}
    IN  IF after # {} THEN CHOOSE j \in after : \A i \in after : j <= i
        ELSE IF before # {} THEN CHOOSE j \in before : \A i \in before : j >= i
        ELSE 0

\* item k is unchanged if the match m of citation_re in its text covers
\* text that is not blank in item o
C8Kept(k, m, o) ==
    (/\ m.ok
     /\ o # 0
     /\ Strip(Slice(OrEmpty(TextAt(o, k)), m.st, m.e)) # <<>>)
    => heap[pre.items[k]].text = pre.heap[pre.items[k]].text

\* C8, as stated: remove_citations leaves the bracketed end of an L item
\* (of a G item) in place when the nearest G item (L item), looked for after
\* the item first and then before it, has text that is not blank at the
\* offsets of the match; so for every place of the item, the first included
C8_NearestComplementGuards ==
    (last = "remove_citations" /\ err = "") =>
        \A k \in DOMAIN pre.items :
            LET item == pre.heap[pre.items[k]]
                t == get_tags(item)[1]
            IN  t \in {<<"L">>, <<"G">>} =>
                    C8Kept(k, ReSearch(citation_re, item.text),
                           NearestOfRole(k, IF t = <<"L">> THEN <<"G">> ELSE <<"L">>))

\* item k is unchanged if the match m of citation_re in its text s has an
\* interior within quotation marks
C9Kept(k, m, s) ==
    (/\ m.ok
     /\ CitationInnerOf(m, s) # None
     /\ ReMatch(quoted_inner_re, CitationInnerOf(m, s)).ok)
    => heap[pre.items[k]].text = s

\* C9, as stated: remove_citations leaves the bracketed end of an item in
\* place when its interior begins with an opening and ends with a closing
\* quotation mark, whatever the primary tag of the item (L, G, T or composite)
C9_QuotedInteriorKept ==
    (last = "remove_citations" /\ err = "") =>
        \A k \in DOMAIN pre.items :
            LET item == pre.heap[pre.items[k]]
            IN  get_tags(item)[1] \in {<<"L">>, <<"G">>, <<"T">>, <<"L", "-", "G">>,
                                       <<"L", "-", "T">>, <<"L", "-", "G", "-", "T">>}
                => C9Kept(k, ReSearch(citation_re, item.text), item.text)

\* the condition of C10 for the match m of ex_num_re in the text s of item k:
\* every item with a primary tag L, G, T or a composite has, at the offsets of
\* the number, the number itself or blanks
C10Aligned(k, m, s) ==
    \A j \in DOMAIN pre.items :
        LET text == Slice(OrEmpty(TextAt(j, k)), m.st, m.e - 1)
        IN  get_tags(pre.heap[pre.items[j]])[1] \in
                {<<"L">>, <<"G">>, <<"T">>, <<"L", "-", "G">>, <<"G", "-", "T">>,
                 <<"L", "-", "T">>, <<"L", "-", "G", "-", "T">>}
            => text = Group(m, s, "exnum") \/ Strip(text) = <<>>

\* item k, of text s with the match m of ex_num_re, has lost its number
\* exactly if stripped is true: blanks stand in its place
C10Stripped(k, m, s, stripped) ==
    LET text == heap[pre.items[k]].text
    IN  IF stripped
        THEN /\ text # s
             /\ Len(text) = Len(s)
             /\ SubSeq(text, 1, m.e) = Spaces(m.e)
        ELSE text = s

\* C10 for item k of text s and primary tag t, m being the match of
\* ex_num_re at the beginning of s
C10Item(k, m, s, t) ==
    IF t \in {<<"L">>, <<"G">>, <<"T">>}
    THEN C10Stripped(k, m, s, m.ok /\ C10Aligned(k, m, s))
    ELSE IF t \in {<<"L", "-", "G">>, <<"L", "-", "T">>, <<"G", "-", "T">>,
                   <<"L", "-", "G", "-", "T">>}
    THEN C10Stripped(k, m, s, m.ok)
    ELSE heap[pre.items[k]].text = s

\* the items given are an L item and a G item with the texts l and g
C10Given(l, g) ==
    TagsAndTexts(pre.heap, pre.items) =
        <<[tag |-> <<"L">>, text |-> l], [tag |-> <<"G">>, text |-> g]>>

\* C10: remove_example_numbers takes the number off the beginning of an L, G
\* or T item (blanks take its place) exactly if every L, G, T and composite
\* item has, at the offsets of the number, the number itself or blanks; it
\* takes the number off a composite item whatever the other items are;
\* 1. the dog ran and 1. dog.NOM run-PST both lose their number, and
\* 1. the dog ran and 1a. dog.NOM run-PST are both left as they are
C10_NumberStrippedIfAligned ==
    (last = "remove_example_numbers" /\ err = "") =>
        /\ \A k \in DOMAIN pre.items :
               LET item == pre.heap[pre.items[k]]
               IN  C10Item(k, ReMatch(ex_num_re, item.text), item.text,
                           get_tags(item)[1])
        /\ C10Given(<<"1", ".", " ">> \o TheDogRan, <<"1", ".", " ">> \o DogNomRunPst)
           => TagsAndTexts(heap, items) =
                  <<[tag |-> <<"L">>, text |-> Spaces(3) \o TheDogRan],
                    [tag |-> <<"G">>, text |-> Spaces(3) \o DogNomRunPst]>>
        /\ C10Given(<<"1", ".", " ">> \o TheDogRan,
                    <<"1", "a", ".", " ">> \o DogNomRunPst)
           => TagsAndTexts(heap, items) = TagsAndTexts(pre.heap, pre.items)

\* C10: 1. the dog ran and 1. dog.NOM run-PST were given and have lost their
\* numbers
C10_AlignedNumbersStripped ==
    /\ last = "remove_example_numbers"
    /\ C10Given(<<"1", ".", " ">> \o TheDogRan, <<"1", ".", " ">> \o DogNomRunPst)
    /\ heap[items[1]].text = Spaces(3) \o TheDogRan
    /\ heap[items[2]].text = Spaces(3) \o DogNomRunPst

\* the output so far of rejoin_continuations as C11 describes it, after item
\* r: an item of primary tag C joins the last item of the output
C11Next(h, out, r) ==
    LET tags == get_tags(h[r])
    IN  IF tags[1] = <<"C">> /\ out # <<>>
        THEN [out EXCEPT ![Len(out)] =
                [@ EXCEPT !.text = @ \o <<" ">> \o LStrip(h[r].text),
                          !.sec = @ \cup Range(Tail(tags)),
                          !.merged = TRUE]]
        ELSE Append(out, [first |-> r, text |-> h[r].text, pri |-> tags[1],
                          sec |-> Range(Tail(tags)), merged |-> FALSE])

\* the output of rejoin_continuations as C11 describes it
C11Groups(h, refs) ==
    LET groups[i \in 0..Len(refs)] ==
            IF i = 0 THEN <<>> ELSE C11Next(h, groups[i - 1], refs[i])
    IN  groups[Len(refs)]

\* the items given are the, of tag L, and dog ran, of tag C
C11Given ==
    TagsAndTexts(pre.heap, pre.items) =
        <<[tag |-> <<"L">>, text |-> <<"t", "h", "e">>],
          [tag |-> <<"C">>, text |-> <<"d", "o", "g", " ", "r", "a", "n">>]>>

\* C11: rejoin_continuations, going through the items in order, merges every
\* item of primary tag C that is not the first of the list into the last item
\* of the output: that item's text gets a space and the left-stripped text of
\* the C item, it keeps its primary tag and gets the secondary tags of the C
\* item; every other item is added to the output, unchanged if nothing is
\* merged into it.  the (L) and dog ran (C) become one L item, the dog ran,
\* and only the first item returned can have the primary tag C
C11_ContinuationsJoinPrecedingItem ==
    (last = "rejoin_continuations" /\ err = "") =>
        LET groups == C11Groups(pre.heap, pre.items)
        IN  /\ items = [i \in DOMAIN groups |-> groups[i].first]
            /\ \A i \in DOMAIN groups :
                   LET item == heap[groups[i].first]
                       tags == get_tags(item)
                   IN  /\ item.text = groups[i].text
                       /\ tags[1] = groups[i].pri
                       /\ Range(Tail(tags)) = groups[i].sec
                       /\ ~groups[i].merged => item = pre.heap[groups[i].first]
            /\ \A i \in 2..Len(items) : get_tags(heap[items[i]])[1] # <<"C">>
            /\ C11Given =>
                   TagsAndTexts(heap, items) =
                       <<[tag |-> <<"L">>,
                          text |-> <<"t", "h", "e", " ", "d", "o", "g", " ", "r", "a",
                                     "n">>]>>

\* C11: the (L) and dog ran (C) were given and one item, the dog ran, is
\* returned
C11_TheDogRanJoined ==
    /\ last = "rejoin_continuations"
    /\ C11Given
    /\ Len(items) = 1
    /\ heap[items[1]].text = <<"t", "h", "e", " ", "d", "o", "g", " ", "r", "a", "n">>
    /\ heap[items[1]].attributes.tag = <<"L">>

\* the heap as it is when the operation looks at item k of the list given:
\* the items before k have been dealt with, the others not
HeapAt(k) ==
    [j \in DOMAIN pre.heap |->
        IF \E i \in 1..(k - 1) : pre.items[i] = j THEN heap[j] ELSE pre.heap[j]]

\* remove_citations has changed item k of the list given
C12Split(k) == heap[pre.items[k]].text # pre.heap[pre.items[k]].text

\* the place in the list returned of item k of the list given, every item
\* changed before it being followed by one new item
C12Place(k) == k + Cardinality({j \in 1..(k - 1) : C12Split(j)})

\* the match m of citation_re in item k of the list given is one the code
\* calls removable
C12Removable(k, m) ==
    /\ get_tags(pre.heap[pre.items[k]])[1] \in
           {<<"L">>, <<"G">>, <<"T">>, <<"L", "-", "G">>, <<"L", "-", "T">>,
            <<"L", "-", "G", "-", "T">>}
    /\ m.ok
    /\ CitationRemovable(HeapAt(k), pre.items, m, get_tags(pre.heap[pre.items[k]])[1],
                         k - 1) = "yes"

\* C12 for item k of text s, m being the match of citation_re in s
C12Item(k, m, s) ==
    LET p == C12Place(k)
        item == heap[pre.items[k]]
    IN  /\ items[p] = pre.items[k]
        /\ C12Split(k) <=> C12Removable(k, m)
        /\ get_tags(item)[1] = get_tags(pre.heap[pre.items[k]])[1]
        /\ IF C12Split(k)
           THEN /\ item.text = RStrip(Slice(s, 0, m.st))
                /\ p < Len(items)
                /\ items[p + 1] > Len(pre.heap)
                /\ get_tags(heap[items[p + 1]])[1] = <<"M">>
                /\ heap[items[p + 1]].text = Strip(Slice(s, m.st, m.e))
           ELSE p < Len(items) => items[p + 1] <= Len(pre.heap)

\* the item given is the dog ran (1999), of tag L
C12Given ==
    TagsAndTexts(pre.heap, pre.items) =
        <<[tag |-> <<"L">>,
           text |-> TheDogRan \o <<" ", "(", "1", "9", "9", "9", ")">>]>>

\* C12: remove_citations returns, for every item given whose citation is
\* removable, the item with the text before the citation (right-stripped) and
\* its primary tag as it was, and right after it one new item of primary tag
\* M whose text is the citation (stripped); every other item is returned as
\* it was, with no new item after it.  the dog ran (1999), of tag L, becomes
\* the dog ran, of tag L, and (1999), of tag M
C12_CitationSplitsIntoItemAndMeta ==
    (last = "remove_citations" /\ err = "") =>
        /\ Len(items) = Len(pre.items)
                        + Cardinality({k \in DOMAIN pre.items : C12Split(k)})
        /\ \A k \in DOMAIN pre.items :
               C12Item(k, ReSearch(citation_re, pre.heap[pre.items[k]].text),
                       pre.heap[pre.items[k]].text)
        /\ C12Given =>
               TagsAndTexts(heap, items) =
                   <<[tag |-> <<"L">>, text |-> TheDogRan],
                     [tag |-> <<"M">>, text |-> <<"(", "1", "9", "9", "9", ")">>]>>

\* C12: the dog ran (1999) was given and two items, the dog ran and (1999),
\* are returned
C12_TheDogRanCitationSplit ==
    /\ last = "remove_citations"
    /\ C12Given
    /\ Len(items) = 2
    /\ heap[items[1]].text = TheDogRan
    /\ heap[items[2]].text = <<"(", "1", "9", "9", "9", ")">>
    /\ heap[items[2]].attributes.tag = <<"M">>

\* the language tokens, each also within an opening bracket, a closing
\* bracket or both; in lower case if fold is true
C13Wrapped(fold) ==
    LET toks == LangTokens(lg)
    IN  {IF fold THEN Lower(o \o toks[i] \o c) ELSE o \o toks[i] \o c :
            i \in DOMAIN toks, o \in {<<>>, <<"(">>, <<"[">>},
            c \in {<<>>, <<")">>, <<"]">>}}

\* the text span is an occurrence of one of the tokens W (C13Wrapped):
\* as written, or whatever its case if fold is true
C13Occurs(span, W, fold) ==
    (IF fold THEN Lower(Strip(span)) ELSE Strip(span)) \in W

\* the text s with its first n characters overwritten by blanks
C13Blanked(s, n) == Spaces(n) \o SubSeq(s, n + 1, Len(s))

\* the new items remove_language_name has made for item k of the list given
C13Metas(k) ==
    {r \in (Len(pre.heap) + 1)..Len(heap) : heap[r].id = pre.heap[pre.items[k]].id}

\* item k, of text s, is as remove_language_name should leave it when the
\* first n characters of s are the token taken from its beginning (n = 0:
\* none is taken) and the token taken from its end begins after e characters
\* (e = Len(s): none is taken)
C13Stripped(k, s, n, e) ==
    LET s1 == C13Blanked(s, n)
    IN  /\ heap[pre.items[k]].text =
               IF e < Len(s) THEN RStrip(SubSeq(s1, 1, e)) ELSE s1
        /\ Cardinality(C13Metas(k)) = (IF n > 0 THEN 1 ELSE 0)
                                      + (IF e < Len(s) THEN 1 ELSE 0)
        /\ {heap[r].text : r \in C13Metas(k)} =
               (IF n > 0 THEN {Strip(SubSeq(s, 1, n))} ELSE {})
               \cup (IF e < Len(s) THEN {Strip(SubSeq(s1, e + 1, Len(s)))} ELSE {})

\* the lengths n a token at the beginning of s can have: none but 0 if there
\* is no occurrence of a token there
C13Leading(s, W, fold) ==
    LET found == {n \in 1..Len(s) : C13Occurs(SubSeq(s, 1, n), W, fold)}
    IN  IF found = {} THEN {0} ELSE found

\* the places e after which a token at the end of s can begin: none but
\* Len(s) if there is no occurrence of a token there
C13Trailing(s, W, fold) ==
    LET found == {e \in 0..(Len(s) - 1) : C13Occurs(SubSeq(s, e + 1, Len(s)), W, fold)}
    IN  IF found = {} THEN {Len(s)} ELSE found

\* what C13 says of item k of the list given
C13Item(k, fold) ==
    LET before == pre.heap[pre.items[k]]
        after == heap[pre.items[k]]
        tags == get_tags(before)
        W == C13Wrapped(fold)
    IN  IF tags[1] = <<"M">> THEN after = before
        ELSE /\ \E n \in C13Leading(before.text, W, fold) :
                    \E e \in C13Trailing(C13Blanked(before.text, n), W, fold) :
                        C13Stripped(k, before.text, n, e)
             /\ after.attributes.tag =
                    IF <<"L", "N">> \in Range(tags) /\ after.text # before.text
                    THEN Join(<<"+">>, RemoveFirst(tags, <<"L", "N">>))
                    ELSE before.attributes.tag

\* what C13 says of the list returned: the items given, in their order, and
\* new items of tag M+LN
C13List ==
    /\ SelectSeq(items, LAMBDA r : r <= Len(pre.heap)) = pre.items
    /\ \A i \in DOMAIN items :
           items[i] > Len(pre.heap)
           => heap[items[i]].attributes.tag = <<"M", "+", "L", "N">>
    /\ \A r \in (Len(pre.heap) + 1)..Len(heap) : \E i \in DOMAIN items : items[i] = r

\* C13, as stated: remove_language_name takes from the beginning and from the
\* end of every item that is not an M item an occurrence of a language token,
\* whatever its case and optionally in brackets, and returns every occurrence
\* taken as a new item of tag M+LN; an item with LN whose text has changed
\* loses LN
C13_TokensStrippedWhateverTheCase ==
    (last = "remove_language_name" /\ err = "") =>
        /\ C13List
        /\ \A k \in DOMAIN pre.items : C13Item(k, TRUE)

\* C13, amended: remove_language_name takes from the beginning and from the
\* end of every item that is not an M item an occurrence of a language token
\* in the case the token has (the code as it is, in upper and in lower case;
\* the name as it is and in upper case; its initials; its first three
\* letters), optionally in brackets: blanks take the place of the one at the
\* beginning, the text is cut and right-stripped before the one at the end;
\* every occurrence taken is returned as a new item of tag M+LN; an item with
\* LN whose text has changed loses LN; M items are left as they are
C13_TokensStrippedAsWritten ==
    (last = "remove_language_name" /\ err = "") =>
        /\ C13List
        /\ \A k \in DOMAIN pre.items : C13Item(k, FALSE)

\* C13: [Eng] c Eng was given with the language name English; its text is
\* now c after blanks, and [Eng] and Eng are returned as M+LN items
C13_BothEndsStripped ==
    /\ last = "remove_language_name"
    /\ \E k \in DOMAIN pre.items :
           /\ pre.heap[pre.items[k]].text =
                  <<"[", "E", "n", "g", "]", " ", "c", " ", "E", "n", "g">>
           /\ heap[pre.items[k]].text = Spaces(6) \o <<"c">>
           /\ {heap[r].text : r \in C13Metas(k)} =
                  {<<"[", "E", "n", "g", "]">>, <<"E", "n", "g">>}

\* the skip cases of C14 for an IGT: it has no odin tier in state raw or
\* cleaned, it has an odin tier in state normalized, or it has a tier of
\* every preset id
C14Skips(igt) ==
    LET odin(states) == {t \in DOMAIN igt.tiers : /\ igt.tiers[t].type = "odin"
                                                   /\ igt.tiers[t].state \in states}
    IN  \/ odin({"raw", "cleaned"}) = {}
        \/ odin({"normalized"}) # {}
        \/ \A i \in DOMAIN PresetIds :
               \E t \in DOMAIN igt.tiers : igt.tiers[t].id = PresetIds[i]

\* the tier normalize_corpus normalizes from: the last odin tier in state
\* cleaned, the first one in state raw if none is cleaned
C14Base(igt) ==
    LET odin(state) == {t \in DOMAIN igt.tiers : /\ igt.tiers[t].type = "odin"
                                                  /\ igt.tiers[t].state = state}
    IN  IF odin("cleaned") # {}
        THEN igt.tiers[CHOOSE t \in odin("cleaned") : \A u \in odin("cleaned") : t >= u]
        ELSE igt.tiers[CHOOSE t \in odin("raw") : \A u \in odin("raw") : t <= u]

\* tier is the normalized tier C14 has normalize_corpus append to the IGT
C14Appended(igt, tier) ==
    /\ tier.type = "odin"
    /\ tier.state = "normalized"
    /\ \E i \in DOMAIN PresetIds :
           /\ tier.id = PresetIds[i]
           /\ \A t \in DOMAIN igt.tiers : igt.tiers[t].id # PresetIds[i]
           /\ \A j \in 1..(i - 1) :
                  \E t \in DOMAIN igt.tiers : igt.tiers[t].id = PresetIds[j]
    /\ tier.alignment = C14Base(igt).id

\* what a step of normalize_corpus may do to the IGT at place k
C14Step(k) ==
    /\ xc'[k].lg = xc[k].lg
    /\ \A t \in DOMAIN xc[k].tiers :
           /\ t \in DOMAIN xc'[k].tiers
           /\ xc'[k].tiers[t] = xc[k].tiers[t]
           /\ Deref(heap', xc[k].tiers[t].items) = Deref(heap, xc[k].tiers[t].items)
    /\ IF C14Skips(xc[k]) THEN xc'[k] = xc[k]
       ELSE \/ xc'[k] = xc[k]
            \/ /\ Len(xc'[k].tiers) = Len(xc[k].tiers) + 1
               /\ C14Appended(xc[k], xc'[k].tiers[Len(xc'[k].tiers)])
    /\ (at' > k \/ pc' = "done") => C14Skips(xc'[k])

\* C14: normalize_corpus never changes an IGT that has no odin tier in state
\* raw or cleaned, that has an odin tier in state normalized, or whose four
\* preset ids n, on, normalized and odin-normalized are all taken: no tier is
\* added and no item of its tiers changes.  To any other IGT it appends one
\* tier, of type odin and state normalized, whose id is the first preset id
\* not taken and whose alignment is the id of the base tier (the last cleaned
\* odin tier, else the first raw one); it has done so when it goes on to the
\* next IGT, and it changes no item of the tiers there were
C14_SkippedUnchangedElseOneTier ==
    [][/\ Len(xc') = Len(xc)
       /\ \A k \in DOMAIN xc : C14Step(k)]_vars

\* C14: normalize_corpus has returned; it has left an IGT without odin tier
\* as it was and has given another IGT, whose tier n is not an odin tier, the
\* normalized tier on, aligned to the cleaned tier c
C14_SecondPresetIdUsed ==
    /\ call = "normalize_corpus"
    /\ pc = "done"
    /\ \E k \in DOMAIN xc :
           /\ Len(xc[k].tiers) = 1
           /\ xc[k].tiers[1].type = "phrases"
    /\ \E k \in DOMAIN xc :
           LET tier == xc[k].tiers[Len(xc[k].tiers)]
           IN  /\ tier.id = <<"o", "n">>
               /\ tier.state = "normalized"
               /\ tier.alignment = <<"c">>
               /\ Len(tier.items) > 0

\* the items of the tiers of the corpus, of every IGT
C15Items ==
    UNION {UNION {{xc[k].tiers[t].items[i] : i \in DOMAIN xc[k].tiers[t].items} :
                  t \in DOMAIN xc[k].tiers} :
           k \in DOMAIN xc}

\* C15: a step of normalize_items, one that raises included, leaves the
\* list of the base tier as it is (the same items in the same order), changes
\* no item of a tier of the corpus (id, type, text, tag, line and the other
\* attributes), and leaves the tiers of every IGT as they are: it works on
\* copies only
C15_WorksOnCopiesOnly ==
    [][pc \notin {"normalize_corpus", "append_tier"} =>
           /\ base' = base
           /\ xc' = xc
           /\ \A r \in C15Items : heap'[r] = heap[r]]_vars

\* C15: normalize_items has returned for the second IGT of a corpus; the
\* items it returns are not those of the base tier and differ from them in
\* text and id, and the base tier a- b, "c" is as it was
C15_CopiesChangedBaseKept ==
    /\ call = "normalize_corpus"
    /\ last = "renumber"
    /\ at = 2
    /\ base = xc[2].tiers[1].items
    /\ {items[i] : i \in DOMAIN items} \cap C15Items = {}
    /\ Len(items) = Len(base)
    /\ [i \in DOMAIN base |-> heap[base[i]].text] =
           <<<<"a", "-", " ", "b">>, <<"u0022", "c", "u0022">>>>
    /\ [i \in DOMAIN items |-> heap[items[i]].text] = <<<<"a", "-", "b">>, <<"c">>>>
    /\ \A i \in DOMAIN items : heap[items[i]].id # heap[base[i]].id

\* the places of normalize_items at which one of the twelve stages is still
\* to run
C16StagesToRun ==
    {"remove_blank_items", "rejoin_continuations", "rejoin_translations",
     "remove_citations", "remove_language_name", "remove_example_numbers",
     "remove_blank_items_again", "item_loop", "separate_secondary_translations",
     "dewrap_lines", "unquote_translations", "shift_left"}

\* C16, as stated in its last part: as long as one of the stages of
\* normalize_items is still to run, no item of the working list has been
\* given its alignment and none has been renumbered with the id of the
\* normalized tier
C16_AlignedAndRenumberedAfterAllStages ==
    (call = "normalize_items" /\ pc \in C16StagesToRun) =>
        \A i \in DOMAIN items :
            /\ heap[items[i]].alignment = None
            /\ heap[items[i]].id # norm_id \o Str(i)

\* C17, as stated: the items normalize_items returns for the tier id n have
\* the ids n1, n2, ... in the order of the list, so that no two places of
\* the list have the same id
C17_IdsNumberedInOrder ==
    Normalized =>
        /\ \A i \in DOMAIN items : heap[items[i]].id = norm_id \o Str(i)
        /\ \A i, j \in DOMAIN items : heap[items[i]].id = heap[items[j]].id => i = j

\* C18, as stated: normalize_items called on the items it has returned
\* returns as many items, with the same tags and texts in the same order
C18_SecondRunKeepsTagsAndTexts ==
    (call = "normalize_items" /\ pc = "done" /\ pass = 2) =>
        TagsAndTexts(heap, items) = TagsAndTexts(heap, base)

\* the judgment C19 reads from a text: the leading run of the symbols *, ?
\* and # after the leading whitespace, the text that follows it, and the text
\* without the run and the whitespace after it
C19Judgment(text) ==
    LET lead == LeadIn(text, Space)
        from == SubSeq(text, lead + 1, Len(text))
        n == LeadIn(from, JudgmentSymbols)
        rest == SubSeq(from, n + 1, Len(from))
    IN  [run |-> SubSeq(from, 1, n),
         rest |-> rest,
         stripped |-> SubSeq(text, 1, lead) \o LStrip(rest)]

\* C19, as stated: extract_judgment leaves an item with the primary tag M or
\* the secondary tag CR as it is; of another item whose text begins with a
\* run of *, ? and # that no / follows it records the run as the judgment and
\* strips it from the text; an item with a / after the run, or with no run,
\* keeps its text and attributes
C19_JudgmentStrippedUnlessAlternation ==
    last = "extract_judgment" =>
        \A k \in DOMAIN pre.items :
            LET before == pre.heap[pre.items[k]]
                after == heap[pre.items[k]]
                tags == get_tags(before)
                j == C19Judgment(before.text)
            IN  IF \/ tags[1] = <<"M">>
                   \/ <<"C", "R">> \in Range(tags)
                   \/ j.run = <<>>
                   \/ "/" \in Range(j.rest)
                THEN after = before
                ELSE after = [before EXCEPT !.attributes.judgment = j.run,
                                            !.text = j.stripped]

\* the places of the list given to remove_blank_items whose item has a text
\* with a character that is not whitespace
C20Kept ==
    {k \in DOMAIN pre.items :
        LET text == pre.heap[pre.items[k]].text
        IN  text # None /\ \E i \in DOMAIN text : text[i] \notin Space}

\* C20: remove_blank_items returns the items given whose text is not missing,
\* empty or all whitespace, and no others, in the order they were given in
\* and unchanged; applied to the list it returned it returns that list again
C20_BlankItemsDroppedOnceAndForAll ==
    (call = "remove_blank_items" /\ last = "remove_blank_items") =>
        /\ err = ""
        /\ heap = pre.heap
        /\ Len(items) = Cardinality(C20Kept)
        /\ \A i \in DOMAIN items :
               \E k \in C20Kept :
                   /\ Cardinality({j \in C20Kept : j <= k}) = i
                   /\ items[i] = pre.items[k]
        /\ remove_blank_items(heap, items) = Ret(heap, items)

\* C20: of the three items  ' ' (G), ' x ' (T) and one without text (M)
\* remove_blank_items has returned the second alone
C20_WhitespaceAndMissingTextDropped ==
    /\ call = "remove_blank_items"
    /\ last = "remove_blank_items"
    /\ [k \in DOMAIN pre.items |-> pre.heap[pre.items[k]].text] =
           <<<<" ">>, <<" ", "x", " ">>, None>>
    /\ items = <<pre.items[2]>>
    /\ heap[items[1]].text = <<" ", "x", " ">>

\* the places of the list given to shift_left whose item is a source, gloss
\* or composite item
C21Shifted ==
    {k \in DOMAIN pre.items :
        get_tags(pre.heap[pre.items[k]])[1] \in
            {<<"L">>, <<"G">>, <<"L", "-", "G">>, <<"L", "-", "T">>,
             <<"G", "-", "T">>, <<"L", "-", "G", "-", "T">>}}

\* the leading whitespace of the texts of those items, before shift_left
C21Widths == {Indent(pre.heap[pre.items[k]].text) : k \in C21Shifted}

\* C21: shift_left cuts from the text of every source, gloss and composite
\* item the same number of leading columns, all of them whitespace: the least
\* leading whitespace among these items (the M, B and T items do not count).
\* One of these items is left without indent and the differences between
\* their indents are as before.  The text of an M item is stripped at both
\* ends, and the other items are as they were
C21_ShiftedByLeastIndent ==
    (call = "shift_left" /\ last = "shift_left") =>
        /\ err = ""
        /\ items = pre.items
        /\ \E m \in C21Widths \cup {0} :
               /\ C21Widths # {} => m \in C21Widths /\ \A w \in C21Widths : m <= w
               /\ \A k \in DOMAIN items :
                      LET before == pre.heap[items[k]]
                          after == heap[items[k]]
                      IN  IF k \in C21Shifted
                          THEN /\ Len(before.text) = m + Len(after.text)
                               /\ \A i \in 1..m : before.text[i] \in Space
                               /\ \A i \in DOMAIN after.text :
                                      after.text[i] = before.text[m + i]
                               /\ after = [before EXCEPT !.text = after.text]
                          ELSE IF get_tags(before)[1] = <<"M">>
                          THEN after = [before EXCEPT !.text = Strip(before.text)]
                          ELSE after = before
        /\ C21Shifted # {} =>
               \E k \in C21Shifted : Indent(heap[items[k]].text) = 0
        /\ \A j, k \in C21Shifted :
               Indent(heap[items[k]].text) - Indent(heap[items[j]].text) =
                   Indent(pre.heap[items[k]].text) - Indent(pre.heap[items[j]].text)

\* C21: shift_left was given '  a' (L), '    b' (G) and ' c ' (M); it has
\* left 'a', '  b' and 'c'
C21_TwoAndFourBecomeNoneAndTwo ==
    /\ call = "shift_left"
    /\ last = "shift_left"
    /\ TagsAndTexts(pre.heap, pre.items) =
           <<[tag |-> <<"L">>, text |-> <<" ", " ", "a">>],
             [tag |-> <<"G">>, text |-> <<" ", " ", " ", " ", "b">>],
             [tag |-> <<"M">>, text |-> <<" ", "c", " ">>]>>
    /\ TagsAndTexts(heap, items) =
           <<[tag |-> <<"L">>, text |-> <<"a">>],
             [tag |-> <<"G">>, text |-> <<" ", " ", "b">>],
             [tag |-> <<"M">>, text |-> <<"c">>]>>

\* the places of the list given to separate_secondary_translations whose
\* item is not a T item, or is a T item with the flag CR
C22Passing ==
    {k \in DOMAIN pre.items :
        LET tags == get_tags(pre.heap[pre.items[k]])
        IN  tags[1] # <<"T">> \/ <<"C", "R">> \in Range(Tail(tags))}

\* an L, G or L-G item of the list given has the flag DB
C22DoubleBlock ==
    \E k \in DOMAIN pre.items :
        LET tags == get_tags(pre.heap[pre.items[k]])
        IN  /\ tags[1] \in {<<"L">>, <<"G">>, <<"L", "-", "G">>}
            /\ <<"D", "B">> \in Range(Tail(tags))

\* C22: when an L, G or L-G item has the flag DB, separate_secondary_
\* translations returns the list it was given and changes no item.  In every
\* case the items that are not T items, and the T items with the flag CR,
\* are in the list returned, each once, in the order given and unchanged
C22_DoubleBlockKeepsTier ==
    (call = "separate_secondary_translations"
     /\ last = "separate_secondary_translations") =>
        /\ err = ""
        /\ C22DoubleBlock => items = pre.items /\ heap = pre.heap
        /\ \A r \in DOMAIN pre.heap : heap[r] = pre.heap[r]
        /\ \A k \in C22Passing : Count(items, pre.items[k]) = 1
        /\ \A j, k \in C22Passing :
               j < k =>
                   \E a, b \in DOMAIN items :
                       a < b /\ items[a] = pre.items[j] /\ items[b] = pre.items[k]

\* C22: separate_secondary_translations was given  a (L+DB)  and
\* 'x' lit: 'y' (T), which it splits when no DB flag is there, and has
\* returned the two items as they were
C22_LiteralNotSplitBesideDoubleBlock ==
    /\ call = "separate_secondary_translations"
    /\ last = "separate_secondary_translations"
    /\ TagsAndTexts(pre.heap, pre.items) =
           <<[tag |-> <<"L", "+", "D", "B">>, text |-> <<"a">>],
             [tag |-> <<"T">>,
              text |-> <<"'", "x", "'", " ", "l", "i", "t", ":", " ", "'", "y", "'">>]>>
    /\ items = pre.items
    /\ heap = pre.heap

\* the places of the list remove_citations has returned that hold a new
\* item: the M item of the citation cut from the item before it
C23Metas == {a \in DOMAIN items : items[a] > Len(pre.heap)}

\* the secondary tags of an item, as a set
C23Flags(item) == Range(Tail(get_tags(item)))

\* the flag C23 has move: AC if the item has it, else LN, else CN
C23Moved(item) ==
    IF <<"A", "C">> \in C23Flags(item) THEN {<<"A", "C">>}
    ELSE IF <<"L", "N">> \in C23Flags(item) THEN {<<"L", "N">>}
    ELSE IF <<"C", "N">> \in C23Flags(item) THEN {<<"C", "N">>}
    ELSE {}

\* C23: where remove_citations has split an item, the new item has the
\* primary tag M and no flag but the one moved: AC if the original had it,
\* else LN, else CN, and none if it had none of them.  The original keeps its
\* primary tag and its other flags in their order, and no longer has the flag
\* moved
C23_OneFlagMovesByPriority ==
    (call = "remove_citations" /\ last = "remove_citations" /\ err = "") =>
        \A a \in C23Metas :
            /\ a > 1
            /\ items[a - 1] \in Range(pre.items)
            /\ LET before == pre.heap[items[a - 1]]
                   after == heap[items[a - 1]]
                   meta == heap[items[a]]
                   moved == C23Moved(before)
               IN  /\ get_tags(meta)[1] = <<"M">>
                   /\ C23Flags(meta) = moved
                   /\ Len(get_tags(meta)) = 1 + Cardinality(moved)
                   /\ get_tags(after) =
                          SelectSeq(get_tags(before), LAMBDA t : t \notin moved)
                   /\ Cardinality(moved) <= 1

\* C23: remove_citations has split  a (b)  with the tag T+CN+AC into  a
\* with the tag T+CN and  (b)  with the tag M+AC
C23_AuthorCommentMovesBeforeConstructionName ==
    /\ call = "remove_citations"
    /\ last = "remove_citations"
    /\ TagsAndTexts(pre.heap, pre.items) =
           <<[tag |-> <<"T", "+", "C", "N", "+", "A", "C">>,
              text |-> <<"a", " ", "(", "b", ")">>]>>
    /\ TagsAndTexts(heap, items) =
           <<[tag |-> <<"T", "+", "C", "N">>, text |-> <<"a">>],
             [tag |-> <<"M", "+", "A", "C">>, text |-> <<"(", "b", ")">>]>>

C25Odin(igt, state) ==
    {t \in DOMAIN igt.tiers : igt.tiers[t].type = "odin" /\ igt.tiers[t].state = state}

\* what a step of a run of normalize_corpus may do to the IGT at place k: add
\* one tier if the IGT has no normalized tier yet, and then a normalized one
\* made from a cleaned tier if there is a cleaned tier
C25Step(k) ==
    /\ C25Odin(xc[k], "normalized") # {} => xc'[k] = xc[k]
    /\ Cardinality(C25Odin(xc'[k], "normalized")) <=
           Cardinality(C25Odin(xc[k], "normalized")) + 1
    /\ Len(xc'[k].tiers) <= Len(xc[k].tiers) + 1
    /\ Len(xc'[k].tiers) > Len(xc[k].tiers) =>
           LET new == xc'[k].tiers[Len(xc'[k].tiers)]
           IN  /\ new.type = "odin" /\ new.state = "normalized"
               /\ C25Odin(xc[k], "cleaned") # {} =>
                      \E t \in C25Odin(xc[k], "cleaned") :
                          /\ new.alignment = xc[k].tiers[t].id
                          /\ base = xc[k].tiers[t].items

\* C25: however often normalize_corpus is run, no step adds a tier to an IGT
\* that has a normalized odin tier, and a step adds at most one normalized
\* tier, so that an IGT never has more than one normalized tier beyond those
\* it had at first; a run after the first adds no tier and changes no item
\* of the corpus; and the tier added to an IGT with a cleaned odin tier is
\* made from a cleaned tier, whether a raw tier comes before or after it
C25_OneNormalizedTierFromCleaned ==
    [][/\ Len(xc') = Len(xc)
       /\ \A k \in DOMAIN xc : C25Step(k)
       /\ pass' = 2 => /\ xc' = xc
                       /\ \A r \in C15Items : heap'[r] = heap[r]]_vars

\* C25: normalize_corpus has returned a second time; one IGT, with a raw tier
\* before its cleaned tier, and another, with a raw tier after its cleaned
\* tier, have each one normalized tier, the last, aligned to the cleaned
\* tier c
C25_SecondRunLeavesOneTierFromCleaned ==
    /\ call = "normalize_corpus"
    /\ pc = "done"
    /\ pass = 2
    /\ Len(xc) = 2
    /\ \A k \in DOMAIN xc :
           /\ Cardinality(C25Odin(xc[k], "normalized")) = 1
           /\ Len(xc[k].tiers) \in C25Odin(xc[k], "normalized")
           /\ xc[k].tiers[Len(xc[k].tiers)].alignment = <<"c">>
    /\ \E t \in C25Odin(xc[1], "raw") : \A u \in C25Odin(xc[1], "cleaned") : t < u
    /\ \E t \in C25Odin(xc[2], "raw") : \A u \in C25Odin(xc[2], "cleaned") : t > u

====
